---------------------------- MODULE Spec2Model ----------------------------
(***************************************************************************)
(* A model of the generation orchestrator (ContentGenerator) and of the    *)
(* financial projection engine (FinancialModeler) of ai-pitchdeck-         *)
(* generator.  Each part has its own specification over the shared         *)
(* variables:                                                              *)
(*   Spec          one call of generate_pitch_deck_content                 *)
(*   SpecFallback  two invocations of _create_fallback_content             *)
(*   SpecFin       one call of create_financial_model, with its recursion  *)
(***************************************************************************)
EXTENDS Integers, Sequences, FiniteSets, TLC

VARIABLES
    \* ---- ContentGenerator.generate_pitch_deck_content ----
    startup,         \* the Startup profile passed to the batch call
    requested,       \* the slide_types argument: None or a list of slide types
    slide_types,     \* the local slide_types after the defaulting of line 57
    jobs,            \* one record per task handed to asyncio.gather
    batch_pc,        \* "called" | "gathering" | "returned" | "raised"
    slides_content,  \* the list the batch call returns
    done_order,      \* the indices of the jobs, in the order they ended
    clock,           \* the reading of datetime.utcnow()
    \* ---- two invocations of _create_fallback_content ----
    fb_pc,           \* "idle" | "first" | "second"
    fb_args,         \* the arguments and the time of each invocation
    fb_out,          \* the record each invocation returned
    \* ---- FinancialModeler.create_financial_model ----
    stack,           \* the frames of create_financial_model in progress
    fin_pc,          \* "idle" | "running" | "returned" | "raised"
    fin_result,      \* what the outermost call returned
    caller_data,     \* the caller's startup_data mapping
    rng_seed,        \* the seed of numpy's global random state
    rng_pos,         \* how many normal draws the global state has served
    calls,           \* how many create_financial_model frames were entered
    handled,         \* the except clauses run so far: {[depth, exc]}
    limit_room,      \* whether, at the recursion limit, the except clause
                     \* still finds room on the stack for its own calls
    \* ---- MarketResearcher.calculate_tam_sam_som ----
    mr_pc,           \* "idle" | "called" | "sized" | "failed" | "returned"
    mr_args,         \* industry, target_market, geographic_scope
    mr_source,       \* what the market size source does for this call
    mr_market_size,  \* the mapping _get_market_size returned
    mr_result,       \* the record the call returned
    \* ---- the executor of one ContentGenerator ----
    pool_calls,      \* the capability calls handed to self.executor, in the
                     \* order of submission: [batch, pc]
    \* ---- the RateLimiter instance ----
    rate_limit_per_minute,  \* RATE_LIMIT_PER_MINUTE as read at construction
    rate_limit_per_hour,    \* RATE_LIMIT_PER_HOUR as read at construction
    requests,        \* self.requests: client_id -> list of request times
    rl_time,         \* the latest reading of time.time(), in seconds
    rl_granted,      \* per client, the times of the calls answered True
    rl_last,         \* the latest call: its name, client, time, answer and
                     \* self.requests as it was before the call
    \* ---- one user's requests to api/routes/generation.py ----
    user,            \* the User row: plan and usage counters
    user_shared,     \* whether the user's requests hold one User object
    startups,        \* how many Startup rows the user owns
    pitch_decks,     \* how many PitchDeck rows the user owns
    http,            \* the user's requests so far: [route, pc, current_user,
                     \* status]
    \* ---- one PitchDeck and its slides ----
    slides,          \* self.slides: the list of [id, order]
    total_slides,    \* self.total_slides
    slide_order,     \* self.slide_order: None (given FALSE) or a list of
                     \* str(id)
    deck_last        \* the latest operation: its name, argument, return value
                     \* and the deck as it was before

gen_vars ==
    <<startup, requested, slide_types, jobs, batch_pc, slides_content,
      done_order, clock>>
fb_vars == <<fb_pc, fb_args, fb_out>>
fin_vars ==
    <<stack, fin_pc, fin_result, caller_data, rng_seed, rng_pos, calls, handled,
      limit_room>>
mr_vars == <<mr_pc, mr_args, mr_source, mr_market_size, mr_result>>
pool_vars == <<pool_calls>>
rl_vars ==
    <<rate_limit_per_minute, rate_limit_per_hour, requests, rl_time,
      rl_granted, rl_last>>
quota_vars == <<user, user_shared, startups, pitch_decks, http>>
deck_vars == <<slides, total_slides, slide_order, deck_last>>
app_vars == <<rl_vars, quota_vars, deck_vars>>
vars == <<gen_vars, fb_vars, fin_vars, mr_vars, pool_vars, app_vars>>

None == "None"

(***************************************************************************)
(* Bounds of the model.                                                    *)
(***************************************************************************)
MaxLen == 2          \* longest explicitly requested slide_types list
MaxClock == 2        \* latest time at which an invocation is made

(***************************************************************************)
(* models/slide.py: SlideType, by value.                                   *)
(***************************************************************************)
SlideType ==
    { "title", "problem", "solution", "market_opportunity", "business_model",
      "traction", "competition", "team", "financials", "funding_ask",
      "roadmap", "contact", "custom" }

\* content_generator.py 58-69: the default deck
DefaultSlideTypes ==
    << "title", "problem", "solution", "market_opportunity", "business_model",
       "traction", "competition", "team", "financials", "funding_ask" >>

\* content_generator.py 43: ThreadPoolExecutor(max_workers=5)
max_workers == 5

\* content_generator.py 44-49: model_preferences["content"]
model_preferences_content == "gpt-4"

(***************************************************************************)
(* The profiles the batch is called with.  industry, funding_stage and     *)
(* revenue_model are the non-nullable columns of models/startup.py; None   *)
(* stands for a profile object that lacks the field.  funding_ask and the  *)
(* market sizes are nullable columns: a profile knows these business facts *)
(* or holds None for them; an amount is written as its decimal numeral.    *)
(***************************************************************************)
BusinessFacts ==
    { [ funding_ask |-> None, market_size_tam |-> None,
        market_size_sam |-> None, market_size_som |-> None ],
      [ funding_ask |-> "2000000", market_size_tam |-> "1000000000",
        market_size_sam |-> "150000000", market_size_som |-> "4500000" ] }

Profiles ==
    { [ name |-> nm, industry |-> ind, funding_stage |-> fs,
        revenue_model |-> "subscription",
        funding_ask |-> facts.funding_ask,
        market_size_tam |-> facts.market_size_tam,
        market_size_sam |-> facts.market_size_sam,
        market_size_som |-> facts.market_size_som ] :
        nm \in {"Acme", "Bolt"}, ind \in {"saas", None}, fs \in {"seed", None},
        facts \in BusinessFacts }

(***************************************************************************)
(* What the narrative-generation capability can do with one call           *)
(* (openai_client.chat.completions.create, content_generator.py 425-436):  *)
(* raise, or return a message whose content is the given text.             *)
(***************************************************************************)
ProviderFailures == { "timeout", "auth_error" }
ProviderTexts ==
    { "json_object",     \* a well-formed JSON object with the requested keys
      "json_empty",      \* the well-formed JSON object {}
      "brace_garbage",   \* text that starts with '{' and is not JSON
      "plain_text" }     \* text that does not start with '{'
ProviderOutcomes == ProviderFailures \cup ProviderTexts

startswith_brace(text) == text \in { "json_object", "json_empty", "brace_garbage" }

\* json.loads: the parsed dict, or a JSONDecodeError
json_loads(text) ==
    CASE text = "json_object" -> [ ok |-> TRUE, keys |-> "all" ]
      [] text = "json_empty"  -> [ ok |-> TRUE, keys |-> "none" ]
      [] OTHER                -> [ ok |-> FALSE, error |-> "JSONDecodeError" ]

\* content_generator.py 419-441: _call_openai, given what the provider did
_call_openai(outcome) ==
    IF outcome \in ProviderFailures
    THEN [ ok |-> FALSE, error |-> outcome ]
    ELSE IF startswith_brace(outcome)
         THEN json_loads(outcome)
         ELSE [ ok |-> TRUE, keys |-> "content_only" ]

(***************************************************************************)
(* Keyword arguments of prompt_template.format(...).                       *)
(***************************************************************************)
\* content_generator.py 443-459: the keys of the context mapping
ContextKeys ==
    { "company_name", "industry", "funding_stage", "revenue_model",
      "target_market", "problem_statement", "solution_description",
      "unique_value_proposition", "team_size", "customer_count",
      "current_revenue", "funding_ask", "slide_type" }

\* content_generator.py 443-459: _prepare_context_data raises when a .value
\* is read from a missing enum field
_prepare_context_data_raises(s) ==
    s.industry = None \/ s.funding_stage = None \/ s.revenue_model = None

\* prompt_templates.py 39-202: the f-string reads industry.value
get_prompt_template_raises(s) == s.industry = None

\* the template chosen (prompt_templates.py 202: TITLE for any other type)
TemplateOf(t) == IF t \in { "roadmap", "contact", "custom" } THEN "title" ELSE t

\* prompt_templates.py 45-199: the replacement fields of each template
TemplateFields(t) ==
    CASE t = "title" -> { "company_name", "tagline" }
      [] t = "problem" -> { "problem_statement", "target_market" }
      [] t = "solution" -> { "solution_description", "unique_value_proposition" }
      [] t = "market_opportunity" ->
            { "market_size_tam", "market_size_sam", "market_size_som",
              "market_growth_rate" }
      [] t = "business_model" -> { "revenue_model", "current_revenue" }
      [] t = "traction" ->
            { "customer_count", "user_count", "growth_rate", "achievements" }
      [] t = "competition" -> { "competitors", "competitive_advantages" }
      [] t = "team" -> { "team_size", "team_experience", "team_members" }
      [] t = "financials" ->
            { "current_revenue", "burn_rate", "runway_months",
              "financial_projections" }
      [] t = "funding_ask" -> { "funding_ask", "use_of_funds", "current_valuation" }

\* content_generator.py 148-153, 171-176, ..., 405-408: the keywords each
\* _generate_*_slide passes explicitly, before **context_data
ExplicitKwargs(t) ==
    CASE t = "title" -> { "company_name", "tagline", "industry" }
      [] t = "problem" -> { "problem_statement", "industry", "target_market" }
      [] t = "solution" -> { "solution_description", "unique_value_proposition" }
      [] t = "market_opportunity" ->
            { "market_size_tam", "market_size_sam", "market_size_som",
              "market_growth_rate" }
      [] t = "business_model" -> { "revenue_model", "current_revenue" }
      [] t = "traction" ->
            { "customer_count", "user_count", "growth_rate", "achievements" }
      [] t = "competition" -> { "competitors", "competitive_advantages" }
      [] t = "team" -> { "team_size", "team_experience", "team_members" }
      [] t = "financials" ->
            { "current_revenue", "burn_rate", "runway_months",
              "financial_projections" }
      [] t = "funding_ask" -> { "funding_ask", "use_of_funds", "current_valuation" }
      [] OTHER -> { "slide_type" }

\* str.format(k1=..., **context_data): a keyword given twice is a TypeError
\* at the call; a replacement field with no argument is a KeyError
format_raises(t) ==
    \/ ExplicitKwargs(t) \cap ContextKeys # {}
    \/ ~(TemplateFields(TemplateOf(t)) \subseteq (ExplicitKwargs(t) \cup ContextKeys))

\* content_generator.py 100-133: what generate_slide_content does before it
\* awaits the capability: "raise" or "call"
BeforeCall(s, t) ==
    IF get_prompt_template_raises(s) \/ _prepare_context_data_raises(s)
    THEN "raise"
    ELSE IF format_raises(t) THEN "raise" ELSE "call"

(***************************************************************************)
(* The records a job and the batch produce.                                *)
(***************************************************************************)
\* content_generator.py 157-167, ..., 412-417: the title of the generated
\* slide; only the custom slide takes it from the response
SlideTitle(s, t, response) ==
    CASE t = "title" -> s.name
      [] t = "problem" -> "The Problem"
      [] t = "solution" -> "Our Solution"
      [] t = "market_opportunity" -> "Market Opportunity"
      [] t = "business_model" -> "Business Model"
      [] t = "traction" -> "Traction & Milestones"
      [] t = "competition" -> "Competitive Landscape"
      [] t = "team" -> "Our Team"
      [] t = "financials" -> "Financial Projections"
      [] t = "funding_ask" -> "Funding Ask"
      [] OTHER -> IF response.keys = "all" THEN "generated title" ELSE "Custom"

\* dict.get(key, default) on the response of the capability: a response
\* with the requested keys holds a generated value under each
response_get(response, key, default) ==
    IF response.keys = "all" THEN << "generated", key >> ELSE default

\* content_generator.py 226-244, 390-401: the fields of the structured
\* content that hold a business fact of the profile
SlideFacts(s, t, response) ==
    CASE t = "market_opportunity" ->
            [ market_size |-> [ tam |-> s.market_size_tam,
                                sam |-> s.market_size_sam,
                                som |-> s.market_size_som ] ]
      [] t = "funding_ask" ->
            [ funding_amount |->
                  response_get(response, "funding_amount", s.funding_ask) ]
      [] OTHER -> [ k \in {} |-> None ]

\* content_generator.py 135-140: what generate_slide_content returns
SlideRecord(s, t, response, now) ==
    [ slide_type |-> t,
      content |-> [ title |-> SlideTitle(s, t, response),
                    generated |-> response.keys,
                    facts |-> SlideFacts(s, t, response) ],
      generated_at |-> now,
      model_used |-> model_preferences_content ]

\* slide_type.value.replace("_", " ").title()
Humanized(t) ==
    CASE t = "market_opportunity" -> "Market Opportunity"
      [] t = "business_model" -> "Business Model"
      [] t = "funding_ask" -> "Funding Ask"
      [] t = "title" -> "Title"
      [] t = "problem" -> "Problem"
      [] t = "solution" -> "Solution"
      [] t = "traction" -> "Traction"
      [] t = "competition" -> "Competition"
      [] t = "team" -> "Team"
      [] t = "financials" -> "Financials"
      [] t = "roadmap" -> "Roadmap"
      [] t = "contact" -> "Contact"
      [] t = "custom" -> "Custom"

\* A plausible slip: the fallback title names the company.
FallbackOfProfile(t, s, now) ==
    [ slide_type |-> t,
      content |-> [ title |-> s.name,
                    content |-> <<"Content for ", t, " slide">>,
                    bullet_points |-> <<"Sample bullet point 1", "Sample bullet point 2">>,
                    layout |-> "bullet_points" ],
      generated_at |-> now,
      model_used |-> "fallback" ]

\* content_generator.py 461-475
_create_fallback_content(t, s, now) ==
    [ slide_type |-> t,
      content |-> [ title |-> Humanized(t),
                    content |-> <<"Content for ", t, " slide">>,
                    bullet_points |-> <<"Sample bullet point 1", "Sample bullet point 2">>,
                    layout |-> "bullet_points" ],
      generated_at |-> now,
      model_used |-> "fallback" ]

NoResult == [ slide_type |-> None ]

Terminal(j) == j.pc \in { "succeeded", "failed" }

\* A plausible slip: results taken in the order the jobs ended.
MergeByCompletion(types, js, order, s, now) ==
    [ k \in 1..Len(types) |->
        IF js[order[k]].pc = "failed"
        THEN _create_fallback_content(types[k], s, now)
        ELSE js[order[k]].result ]

\* A plausible slip: the exception of a failed job is appended as it is.
MergeKeepingExceptions(types, js, order, s, now) ==
    [ i \in 1..Len(types) |-> js[i].result ]

\* content_generator.py 80-88: gather's results are in task order; the loop
\* replaces each exception by the fallback of slide_types[i]
MergeResults(types, js, order, s, now) ==
    [ i \in 1..Len(types) |->
        IF js[i].pc = "failed"
        THEN _create_fallback_content(types[i], s, now)
        ELSE js[i].result ]

\* A plausible slip: only None selects the default deck.
EffectiveOnlyNone(req) == IF ~req.given THEN DefaultSlideTypes ELSE req.list

\* content_generator.py 57-69: "if not slide_types" is true of None and of []
EffectiveSlideTypes(req) ==
    IF ~req.given \/ Len(req.list) = 0 THEN DefaultSlideTypes ELSE req.list

(***************************************************************************)
(* generate_pitch_deck_content as a state machine.                         *)
(***************************************************************************)
SeqsUpTo(n) == UNION { [1..k -> SlideType] : k \in 0..n }

Requests ==
    { [ given |-> FALSE, list |-> <<>> ] }
        \cup { [ given |-> TRUE, list |-> l ] : l \in SeqsUpTo(MaxLen) }

FbIdle == fb_pc = "idle" /\ fb_args = <<>> /\ fb_out = <<>>

FinIdle ==
    /\ stack = <<>>
    /\ fin_pc = "idle"
    /\ fin_result = [ kind |-> None ]
    /\ caller_data = [ kind |-> None ]
    /\ rng_seed = 0
    /\ rng_pos = 0
    /\ calls = 0
    /\ handled = {}
    /\ limit_room = TRUE

MrIdle ==
    /\ mr_pc = "idle"
    /\ mr_args = [ industry |-> None ]
    /\ mr_source = None
    /\ mr_market_size = [ k \in {} |-> None ]
    /\ mr_result = [ k \in {} |-> None ]

PoolIdle == pool_calls = <<>>

\* no call of the rate limiter was made
RlIdle ==
    /\ rate_limit_per_minute = 0
    /\ rate_limit_per_hour = 0
    /\ requests = <<>>
    /\ rl_time = 0
    /\ rl_granted = <<>>
    /\ rl_last = [ op |-> "idle" ]

\* no request of the user was received
QuotaIdle ==
    /\ user = [ subscription_plan |-> None, total_generations |-> 0,
                pitch_decks_created |-> 0 ]
    /\ user_shared = TRUE
    /\ startups = 0
    /\ pitch_decks = 0
    /\ http = <<>>

\* no deck is at hand
DeckIdle ==
    /\ slides = <<>>
    /\ total_slides = 0
    /\ slide_order = [ given |-> FALSE, list |-> <<>> ]
    /\ deck_last = [ op |-> "idle" ]

AppIdle == RlIdle /\ QuotaIdle /\ DeckIdle

GenIdle ==
    /\ startup = [ name |-> None ]
    /\ requested = [ given |-> FALSE, list |-> <<>> ]
    /\ slide_types = <<>>
    /\ jobs = <<>>
    /\ batch_pc = "idle"
    /\ slides_content = <<>>
    /\ done_order = <<>>
    /\ clock = 0

Init ==
    /\ AppIdle
    /\ startup \in Profiles
    /\ requested \in Requests
    /\ slide_types = <<>>
    /\ jobs = <<>>
    /\ batch_pc = "called"
    /\ slides_content = <<>>
    /\ done_order = <<>>
    /\ clock = 0
    /\ FbIdle
    /\ FinIdle
    /\ MrIdle
    /\ PoolIdle

\* content_generator.py 53-77: the defaulting, and one task per slide type
Dispatch ==
    /\ batch_pc = "called"
    /\ slide_types' = EffectiveSlideTypes(requested)
    /\ jobs' = [ i \in 1..Len(slide_types') |->
                   [ slide_type |-> slide_types'[i], pc |-> "created",
                     provider |-> None, result |-> NoResult ] ]
    /\ batch_pc' = "gathering"
    /\ UNCHANGED <<startup, requested, slides_content, done_order, clock>>
    /\ UNCHANGED <<fb_vars, fin_vars, mr_vars, pool_vars, app_vars>>

\* content_generator.py 100-133, up to the await of _call_openai.  The event
\* loop starts the tasks gather made in the order it made them.
JobStart(i) ==
    /\ batch_pc = "gathering"
    /\ jobs[i].pc = "created"
    /\ \A j \in 1..(i - 1) : jobs[j].pc # "created"
    /\ IF BeforeCall(startup, jobs[i].slide_type) = "raise"
       THEN /\ jobs' = [ jobs EXCEPT ![i].pc = "failed",
                                     ![i].result = [ slide_type |-> "Exception" ] ]
            /\ done_order' = Append(done_order, i)
       ELSE /\ jobs' = [ jobs EXCEPT ![i].pc = "submitted" ]
            /\ UNCHANGED done_order
    /\ UNCHANGED <<startup, requested, slide_types, batch_pc, slides_content, clock>>
    /\ UNCHANGED <<fb_vars, fin_vars, mr_vars, pool_vars, app_vars>>

InFlight == { i \in DOMAIN jobs : jobs[i].pc = "inflight" }

\* content_generator.py 423-434: a worker of the executor takes the call
WorkerPick(i) ==
    /\ batch_pc = "gathering"
    /\ jobs[i].pc = "submitted"
    /\ Cardinality(InFlight) < max_workers
    /\ jobs' = [ jobs EXCEPT ![i].pc = "inflight" ]
    /\ UNCHANGED <<startup, requested, slide_types, batch_pc, slides_content,
                   done_order, clock>>
    /\ UNCHANGED <<fb_vars, fin_vars, mr_vars, pool_vars, app_vars>>

\* content_generator.py 436-441 and 135-144: the call ends; the job returns
\* its record or raises
ProviderReturns(i, outcome) ==
    /\ batch_pc = "gathering"
    /\ jobs[i].pc = "inflight"
    /\ LET response == _call_openai(outcome)
       IN jobs' = [ jobs EXCEPT ![i] =
                      IF response.ok
                      THEN [ @ EXCEPT !.pc = "succeeded",
                                      !.provider = outcome,
                                      !.result = SlideRecord(startup, jobs[i].slide_type,
                                                             response, clock) ]
                      ELSE [ @ EXCEPT !.pc = "failed",
                                      !.provider = outcome,
                                      !.result = [ slide_type |-> "Exception" ] ] ]
    /\ done_order' = Append(done_order, i)
    /\ UNCHANGED <<startup, requested, slide_types, batch_pc, slides_content, clock>>
    /\ UNCHANGED <<fb_vars, fin_vars, mr_vars, pool_vars, app_vars>>

\* time passes while the batch waits
Tick ==
    /\ batch_pc = "gathering"
    /\ clock < MaxClock
    /\ clock' = clock + 1
    /\ UNCHANGED <<startup, requested, slide_types, jobs, batch_pc, slides_content,
                   done_order>>
    /\ UNCHANGED <<fb_vars, fin_vars, mr_vars, pool_vars, app_vars>>

\* A plausible slip: gather without return_exceptions ends with the first
\* exception of a task, while the other tasks go on.
gather_propagating(js) ==
    IF \E i \in DOMAIN js : js[i].pc = "failed"
    THEN "raise"
    ELSE IF \A i \in DOMAIN js : Terminal(js[i]) THEN "results" ELSE "wait"

\* A plausible slip: the await ends with the first task that has ended.
gather_first_completed(js) ==
    IF js = <<>> \/ \E i \in DOMAIN js : Terminal(js[i]) THEN "results" ELSE "wait"

\* content_generator.py 80: asyncio.gather(*tasks, return_exceptions=True)
\* ends when every task has ended, an exception being a result like another
gather(js) ==
    IF \A i \in DOMAIN js : Terminal(js[i]) THEN "results" ELSE "wait"

\* content_generator.py 80-98: the await of gather ends; merge and return, or
\* re-raise what the await raised
BatchReturn ==
    /\ batch_pc = "gathering"
    /\ gather(jobs) # "wait"
    /\ IF gather(jobs) = "results"
       THEN /\ slides_content' =
                   MergeResults(slide_types, jobs, done_order, startup, clock)
            /\ batch_pc' = "returned"
       ELSE /\ batch_pc' = "raised"
            /\ UNCHANGED slides_content
    /\ UNCHANGED <<startup, requested, slide_types, jobs, done_order, clock>>
    /\ UNCHANGED <<fb_vars, fin_vars, mr_vars, pool_vars, app_vars>>

Next ==
    \/ Dispatch
    \/ \E i \in DOMAIN jobs : JobStart(i)
    \/ \E i \in DOMAIN jobs : WorkerPick(i)
    \/ \E i \in DOMAIN jobs : \E outcome \in ProviderOutcomes : ProviderReturns(i, outcome)
    \/ Tick
    \/ BatchReturn

Spec == Init /\ [][Next]_vars

(***************************************************************************)
(* Claims about generate_pitch_deck_content.                               *)
(***************************************************************************)
PositionIn(order, i) == CHOOSE k \in DOMAIN order : order[k] = i

\* C1: for every explicitly requested list of N >= 0 slide types, the empty
\* list included, the batch returns exactly N slide contents.
C1_LengthEqualsRequested ==
    (batch_pc = "returned" /\ requested.given)
        => Len(slides_content) = Len(requested.list)

\* C2: whatever the order in which the jobs end, the i-th returned element has
\* the slide type of the i-th requested type and carries the outcome of the
\* i-th job (its generated record, or the fallback when it failed).
C2_PositionalMerge ==
    batch_pc = "returned" =>
        /\ (requested.given /\ requested.list # <<>>) => slide_types = requested.list
        /\ Len(slides_content) = Len(slide_types)
        /\ \A i \in DOMAIN slides_content :
              /\ slides_content[i].slide_type = slide_types[i]
              /\ jobs[i].pc = "succeeded" => slides_content[i] = jobs[i].result
              /\ jobs[i].pc = "failed" => slides_content[i].model_used = "fallback"

\* C2 witness: a returned batch in which a later job ended before an earlier
\* one, the two having different outcomes.
C2_Witness ==
    /\ batch_pc = "returned"
    /\ \E i, j \in DOMAIN jobs :
          /\ i < j
          /\ PositionIn(done_order, j) < PositionIn(done_order, i)
          /\ jobs[i].pc = "succeeded"
          /\ jobs[j].pc = "failed"
          /\ jobs[i].slide_type # jobs[j].slide_type

\* C3: when any subset of the jobs fails, the batch call still returns
\* normally: it never raises, at its return every job has ended, and every
\* failed position holds the fallback content of its slide type.
C3_FailuresContained ==
    /\ batch_pc # "raised"
    /\ batch_pc = "returned" =>
          /\ \A i \in DOMAIN jobs : Terminal(jobs[i])
          /\ Len(slides_content) = Len(jobs)
          /\ \A i \in DOMAIN jobs :
                jobs[i].pc = "failed" =>
                    /\ slides_content[i].model_used = "fallback"
                    /\ slides_content[i].slide_type = jobs[i].slide_type

\* C3 witness: a returned batch in which one job failed at the provider
\* (timeout, authentication, malformed response) and a sibling succeeded
\* after that failure.
C3_Witness ==
    /\ batch_pc = "returned"
    /\ \E i, j \in DOMAIN jobs :
          /\ jobs[i].provider \in { "timeout", "auth_error", "brace_garbage" }
          /\ jobs[i].pc = "failed"
          /\ jobs[j].pc = "succeeded"
          /\ PositionIn(done_order, i) < PositionIn(done_order, j)

\* the job's call to the capability failed: it raised, or its text was
\* malformed
CapabilityFailed(j) ==
    j.provider \in ProviderFailures \cup { "brace_garbage" }

\* C4: a returned slide content is marked model_used = "fallback" if and only
\* if that job's call to the capability failed; in particular a well-formed
\* JSON object gives generated content for every slide type.  Stated for the
\* profiles that have every required field.
C4_FallbackIffCallFailed ==
    (batch_pc = "returned" /\ ~_prepare_context_data_raises(startup)) =>
        \A i \in DOMAIN slides_content :
            (slides_content[i].model_used = "fallback") <=> CapabilityFailed(jobs[i])

(***************************************************************************)
(* _create_fallback_content invoked twice, at any times, with any          *)
(* profiles (a redelivered batch whose jobs fail invokes it again).        *)
(***************************************************************************)
InitFallback == GenIdle /\ FbIdle /\ FinIdle /\ MrIdle /\ PoolIdle /\ AppIdle

LastInvocationTime == IF fb_args = <<>> THEN 0 ELSE fb_args[Len(fb_args)].at

FallbackInvoke(t, s, now) ==
    /\ fb_pc \in { "idle", "first" }
    /\ now >= LastInvocationTime
    /\ fb_args' = Append(fb_args, [ slide_type |-> t, startup |-> s, at |-> now ])
    /\ fb_out' = Append(fb_out, _create_fallback_content(t, s, now))
    /\ fb_pc' = IF fb_pc = "idle" THEN "first" ELSE "second"
    /\ UNCHANGED <<gen_vars, fin_vars, mr_vars, pool_vars, app_vars>>

NextFallback ==
    \E t \in SlideType : \E s \in Profiles : \E now \in 0..MaxClock :
        FallbackInvoke(t, s, now)

SpecFallback == InitFallback /\ [][NextFallback]_vars

WithoutTime(r) == [ f \in DOMAIN r \ { "generated_at" } |-> r[f] ]

MaxDepth == 3        \* frames of create_financial_model the interpreter's
                     \* recursion limit leaves room for

months == 36
starting_cash == 100000000           \* $1M, in cents
base_salary == 8000
overhead_per_employee == 2000
customer_acquisition_cost == 100
customer_lifetime_value == 500
churn_rate_pct == 5
gross_margin_pct == 70
team_cap == 100

Abs(x) == IF x < 0 THEN -x ELSE x
Sgn(x) == IF x < 0 THEN -1 ELSE 1
Max(a, b) == IF a >= b THEN a ELSE b
Min(a, b) == IF a <= b THEN a ELSE b

\* a / d rounded to the nearest integer (d > 0), halves away from zero
RoundDiv(a, d) ==
    Sgn(a) * ((Abs(a) \div d) + (IF 2 * (Abs(a) % d) >= d THEN 1 ELSE 0))

\* x * p / 100 rounded to the nearest integer, without the product x * p
MulPct(x, p) ==
    Sgn(x) * ((Abs(x) \div 100) * p + RoundDiv((Abs(x) % 100) * p, 100))

\* a / d in tenths (d > 0), without the product a * 10
DivTenths(a, d) ==
    Sgn(a) * ((Abs(a) \div d) * 10 + RoundDiv((Abs(a) % d) * 10, d))

RECURSIVE SumTo(_, _, _)
\* sum(f[i] for i in lo..hi)
SumTo(f, lo, hi) == IF hi < lo THEN 0 ELSE f[hi] + SumTo(f, lo, hi - 1)

(***************************************************************************)
(* numpy's global random state: a seed fixes the stream, and every         *)
(* np.random.normal(0, 0.05) takes the next draw of it.  Draws are in      *)
(* hundredths; -40 is a draw that brings the multiplier under the floor.   *)
(***************************************************************************)
JitterValues == << 0, 5, -5, 3, -40, -2, 4 >>

normal(seed, pos) ==
    JitterValues[((seed * 3 + pos * (pos + seed + 1)) % Len(JitterValues)) + 1]

(***************************************************************************)
(* The startup_data mapping: each key is missing, holds a number, or holds *)
(* a value that is no number (None, a string).                             *)
(***************************************************************************)
Missing == [ kind |-> "missing", v |-> 0 ]
NotANumber == [ kind |-> "bad", v |-> 0 ]
Num(n) == [ kind |-> "num", v |-> n ]

\* dict.get(key, default)
get(data, key, default) == IF data[key].kind = "missing" THEN default ELSE data[key]

\* financial_modeler.py 72-78
growth_rates(funding_stage) ==
    CASE funding_stage = "seed" -> 15
      [] funding_stage = "series_a" -> 25
      [] funding_stage = "series_b" -> 30
      [] funding_stage = "series_c" -> 20
      [] OTHER -> 20

\* financial_modeler.py 110-116
team_growth_rates(funding_stage) ==
    CASE funding_stage = "seed" -> 10
      [] funding_stage = "series_a" -> 15
      [] funding_stage = "series_b" -> 20
      [] funding_stage = "series_c" -> 15
      [] OTHER -> 10

\* financial_modeler.py 215-221
valuation_multiples(funding_stage) ==
    CASE funding_stage = "seed" -> 5
      [] funding_stage = "series_a" -> 8
      [] funding_stage = "series_b" -> 10
      [] funding_stage = "series_c" -> 12
      [] OTHER -> 8

RECURSIVE RunningRevenue(_, _, _, _, _)
\* financial_modeler.py 80-84: the values monthly_revenue takes, month by
\* month, in thousandths of a dollar; `run` holds the months done, and the
\* draws are those after position pos
RunningRevenue(run, current_revenue, growth_rate, seed, pos) ==
    IF Len(run) >= months
    THEN run
    ELSE RunningRevenue(
             Append(run,
                    MulPct(IF Len(run) = 0 THEN current_revenue ELSE run[Len(run)],
                           Max(80, 100 + growth_rate
                                       + normal(seed, pos + Len(run) + 1)))),
             current_revenue, growth_rate, seed, pos)

\* round(x, 2) of a value in thousandths of a dollar, in cents
Round2(x) == RoundDiv(x, 10)

\* A plausible slip: the running total counts the current month twice.
CumulativeCountsTwice(current_revenue, funding_stage, seed, pos) ==
    LET growth_rate == growth_rates(funding_stage)
        running == RunningRevenue(<<>>, current_revenue, growth_rate, seed, pos)
        revenue == [ m \in 1..months |-> Round2(running[m]) ]
    IN [ monthly_revenue |->
             [ m \in 1..months |->
                 [ month |-> m,
                   revenue |-> revenue[m],
                   growth_rate |-> growth_rate,
                   cumulative_revenue |->
                       Round2(10 * SumTo(revenue, 1, m) + running[m]) ] ],
         annual_revenue |->
             [ y \in 1..((months + 11) \div 12) |->
                 SumTo(revenue, 12 * (y - 1) + 1, Min(12 * y, months)) ],
         total_revenue_36_months |-> SumTo(revenue, 1, months),
         average_monthly_growth |-> growth_rate ]

\* financial_modeler.py 66-98: _project_revenue, for a numeric
\* current_revenue (the customer_count argument is never read)
_project_revenue(current_revenue, funding_stage, seed, pos) ==
    LET growth_rate == growth_rates(funding_stage)
        running == RunningRevenue(<<>>, current_revenue, growth_rate, seed, pos)
        revenue == [ m \in 1..months |-> Round2(running[m]) ]
        revenue_data ==
            [ m \in 1..months |->
                [ month |-> m,
                  revenue |-> revenue[m],
                  growth_rate |-> growth_rate,
                  cumulative_revenue |->
                      Round2(10 * SumTo(revenue, 1, m - 1) + running[m]) ] ]
    IN [ monthly_revenue |-> revenue_data,
         annual_revenue |->
             [ y \in 1..((months + 11) \div 12) |->
                 SumTo(revenue, 12 * (y - 1) + 1, Min(12 * y, months)) ],
         total_revenue_36_months |-> SumTo(revenue, 1, months),
         average_monthly_growth |-> growth_rate ]

\* A plausible slip: the team grows without the cap.
RECURSIVE RunningTeamUncapped(_, _, _)
RunningTeamUncapped(run, team_size, team_growth) ==
    IF Len(run) >= months
    THEN run
    ELSE RunningTeamUncapped(
             Append(run,
                    MulPct(IF Len(run) = 0 THEN team_size * 10000
                                           ELSE run[Len(run)],
                           100 + team_growth)),
             team_size, team_growth)

RECURSIVE RunningTeam(_, _, _)
\* financial_modeler.py 118-122: the values current_team_size takes, month
\* by month, in ten-thousandths; `run` holds the months done
RunningTeam(run, team_size, team_growth) ==
    IF Len(run) >= months
    THEN run
    ELSE RunningTeam(
             Append(run,
                    Min(MulPct(IF Len(run) = 0 THEN team_size * 10000
                                               ELSE run[Len(run)],
                               100 + team_growth),
                        team_cap * 10000)),
             team_size, team_growth)

\* financial_modeler.py 100-147: _project_costs, for a numeric team_size.
\* A head costs base_salary dollars: a ten-thousandth of a head costs
\* base_salary / 100 cents.
_project_costs(team_size, funding_stage) ==
    LET team_growth == team_growth_rates(funding_stage)
        team == RunningTeam(<<>>, team_size, team_growth)
        personnel == [ m \in 1..months |-> team[m] * (base_salary \div 100) ]
        overhead == [ m \in 1..months |-> team[m] * (overhead_per_employee \div 100) ]
        marketing == [ m \in 1..months |-> MulPct(personnel[m], 30) ]
        other == [ m \in 1..months |-> MulPct(personnel[m], 20) ]
        total == [ m \in 1..months |->
                     personnel[m] + overhead[m] + marketing[m] + other[m] ]
    IN [ monthly_costs |->
             [ m \in 1..months |->
                 [ month |-> m,
                   team_size |-> RoundDiv(team[m], 1000),
                   personnel_costs |-> personnel[m],
                   overhead_costs |-> overhead[m],
                   marketing_costs |-> marketing[m],
                   other_costs |-> other[m],
                   total_costs |-> total[m] ] ],
         annual_costs |->
             [ y \in 1..((months + 11) \div 12) |->
                 SumTo(total, 12 * (y - 1) + 1, Min(12 * y, months)) ],
         total_costs_36_months |-> SumTo(total, 1, months),
         average_monthly_burn |-> RoundDiv(SumTo(total, 1, months), months) ]

Unbounded == [ kind |-> "inf", v |-> 0 ]

\* A plausible slip: the balance is overwritten, not accumulated.
CashFlowNotAccumulated(revenue_projections, cost_projections) ==
    LET net == [ m \in 1..months |->
                   revenue_projections.monthly_revenue[m].revenue
                       - cost_projections.monthly_costs[m].total_costs ]
    IN [ monthly_cash_flow |->
             [ m \in 1..months |->
                 [ month |-> m,
                   revenue |-> revenue_projections.monthly_revenue[m].revenue,
                   costs |-> cost_projections.monthly_costs[m].total_costs,
                   net_cash_flow |-> net[m],
                   cumulative_cash |-> starting_cash + net[m],
                   runway_months |-> Unbounded ] ],
         starting_cash |-> starting_cash,
         ending_cash |-> starting_cash + net[months],
         total_net_cash_flow |-> net[months] ]

\* A plausible slip: with no costs the runway is a large number.
runway_large_number(current_cash, costs) ==
    IF costs > 0 THEN Num(DivTenths(current_cash, costs)) ELSE Num(999999)

\* financial_modeler.py 170: runway_months, in tenths of a month, or the
\* sentinel float('inf')
runway_months(current_cash, costs) ==
    IF costs > 0 THEN Num(DivTenths(current_cash, costs)) ELSE Unbounded

\* financial_modeler.py 155-162: current_cash after each month, accumulated
\* month by month from starting_cash
RECURSIVE RunningCash(_, _)
RunningCash(run, net_cash_flow) ==
    IF Len(run) >= months
    THEN run
    ELSE RunningCash(
             Append(run,
                    (IF Len(run) = 0 THEN starting_cash ELSE run[Len(run)])
                        + net_cash_flow[Len(run) + 1]),
             net_cash_flow)

\* financial_modeler.py 149-179: _project_cash_flow
_project_cash_flow(revenue_projections, cost_projections) ==
    LET revenue == [ m \in 1..months |->
                       revenue_projections.monthly_revenue[m].revenue ]
        costs == [ m \in 1..months |->
                     cost_projections.monthly_costs[m].total_costs ]
        net_cash_flow == [ m \in 1..months |-> revenue[m] - costs[m] ]
        current_cash == RunningCash(<<>>, net_cash_flow)
    IN [ monthly_cash_flow |->
             [ m \in 1..months |->
                 [ month |-> m,
                   revenue |-> revenue[m],
                   costs |-> costs[m],
                   net_cash_flow |-> net_cash_flow[m],
                   cumulative_cash |-> current_cash[m],
                   runway_months |-> runway_months(current_cash[m], costs[m]) ] ],
         starting_cash |-> starting_cash,
         ending_cash |-> current_cash[months],
         total_net_cash_flow |-> current_cash[months] - starting_cash ]

\* A plausible slip: with no customers the revenue is taken per one customer.
UnitEconomicsNoGuard(startup_data) ==
    LET current_revenue == get(startup_data, "current_revenue", Num(0)).v
    IN [ average_revenue_per_user |-> RoundDiv(current_revenue, 10),
         customer_acquisition_cost |-> customer_acquisition_cost,
         customer_lifetime_value |-> customer_lifetime_value,
         churn_rate |-> churn_rate_pct,
         ltv_cac_ratio |-> 500,
         payback_period_months |->
             IF current_revenue > 0
             THEN Num(RoundDiv(customer_acquisition_cost * 10000, current_revenue))
             ELSE Unbounded,
         gross_margin |-> gross_margin_pct,
         contribution_margin |->
             RoundDiv(current_revenue * 7, 100) - customer_acquisition_cost * 100 ]

\* financial_modeler.py 181-207: _calculate_unit_economics, for numeric
\* current_revenue (thousandths of a dollar) and customer_count
_calculate_unit_economics(startup_data) ==
    LET current_revenue == get(startup_data, "current_revenue", Num(0)).v
        customer_count == get(startup_data, "customer_count", Num(1)).v
        has_arpu == customer_count > 0 /\ current_revenue > 0
    IN [ average_revenue_per_user |->
             IF customer_count > 0
             THEN RoundDiv(current_revenue, customer_count * 10)
             ELSE 0,
         customer_acquisition_cost |-> customer_acquisition_cost,
         customer_lifetime_value |-> customer_lifetime_value,
         churn_rate |-> churn_rate_pct,
         ltv_cac_ratio |->
             IF customer_acquisition_cost > 0
             THEN RoundDiv(customer_lifetime_value * 100, customer_acquisition_cost)
             ELSE 0,
         payback_period_months |->
             IF has_arpu
             THEN Num(RoundDiv(customer_acquisition_cost * 10000 * customer_count,
                               current_revenue))
             ELSE Unbounded,
         gross_margin |-> gross_margin_pct,
         contribution_margin |->
             (IF customer_count > 0
              THEN RoundDiv(current_revenue * (gross_margin_pct \div 10),
                            customer_count * 100)
              ELSE 0) - customer_acquisition_cost * 100 ]

\* financial_modeler.py 209-231: _calculate_valuation
_calculate_valuation(revenue_projections, funding_stage) ==
    LET annual_revenue ==
            IF Len(revenue_projections.annual_revenue) > 2
            THEN revenue_projections.annual_revenue[3]
            ELSE revenue_projections.monthly_revenue[months].revenue * 12
        multiple == valuation_multiples(funding_stage)
    IN [ projected_annual_revenue |-> annual_revenue,
         valuation_multiple |-> multiple,
         estimated_valuation |-> annual_revenue * multiple,
         methodology |-> "Revenue multiple" ]

\* financial_modeler.py 233-249: _calculate_key_metrics (the totals; the
\* averages and the margin are quotients of these)
_calculate_key_metrics(revenue_projections, cost_projections) ==
    [ total_revenue_36_months |-> revenue_projections.total_revenue_36_months,
      total_costs_36_months |-> cost_projections.total_costs_36_months,
      net_profit_36_months |->
          revenue_projections.total_revenue_36_months
              - cost_projections.total_costs_36_months,
      revenue_growth_rate |-> revenue_projections.average_monthly_growth ]

(***************************************************************************)
(* create_financial_model as a state machine.  The call is recursive       *)
(* through _create_scenarios, so the model keeps the stack of its frames;  *)
(* the interpreter raises RecursionError in the frame that finds no room   *)
(* for a further call.                                                     *)
(***************************************************************************)
StartupData ==
    { [ name |-> "Acme", current_revenue |-> cr, customer_count |-> cc,
        team_size |-> ts, funding_stage |-> fs ] :
        cr \in { NotANumber, Num(0), Num(50000), Num(-50000) },
        cc \in { NotANumber, Num(0), Num(3), Num(100) },
        ts \in { NotANumber, Num(0), Num(1), Num(-1) },
        fs \in { "seed", "series_a" } }
      \cup { [ name |-> "missing", current_revenue |-> Missing,
               customer_count |-> Missing, team_size |-> Missing,
               funding_stage |-> "missing" ] }

Seeds == { 0, 1 }

EmptyDict == [ k \in {} |-> 0 ]

\* financial_modeler.py 270-284
_create_fallback_financial_model(startup_data) ==
    [ startup_name |-> IF startup_data.name = "missing" THEN "Unknown"
                                                        ELSE startup_data.name,
      projection_period |-> "36 months",
      revenue_projections |-> [ total_revenue_36_months |-> 0 ],
      cost_projections |-> [ total_costs_36_months |-> 0 ],
      cash_flow_projections |-> [ total_net_cash_flow |-> 0 ],
      unit_economics |-> [ ltv_cac_ratio |-> 0 ],
      valuation_model |-> [ estimated_valuation |-> 0 ],
      key_metrics |-> [ profit_margin |-> 0 ],
      scenarios |-> EmptyDict,
      source |-> "fallback_data" ]

IsFallback(model) == "source" \in DOMAIN model

\* financial_modeler.py 34-37
FundingStageOf(startup_data) ==
    IF startup_data.funding_stage = "missing" THEN "seed" ELSE startup_data.funding_stage

\* financial_modeler.py 34-55: the first statement that raises for this
\* mapping, or "none": arithmetic on a value that is no number is a TypeError
FirstFailure(startup_data) ==
    CASE get(startup_data, "current_revenue", Num(0)).kind = "bad" -> "_project_revenue"
      [] get(startup_data, "team_size", Num(1)).kind = "bad" -> "_project_costs"
      [] get(startup_data, "customer_count", Num(1)).kind = "bad" ->
            "_calculate_unit_economics"
      [] OTHER -> "none"

\* financial_modeler.py 81-84: the draws taken before the body ends: the
\* failing product of the first month comes after its draw
DrawsTaken(startup_data) ==
    IF FirstFailure(startup_data) = "_project_revenue" THEN 1 ELSE months

\* financial_modeler.py 34-55: the projections of one call, the global
\* random state being at position pos
Projections(startup_data, seed, pos) ==
    LET funding_stage == FundingStageOf(startup_data)
        revenue_projections ==
            _project_revenue(get(startup_data, "current_revenue", Num(0)).v,
                             funding_stage, seed, pos)
        cost_projections ==
            _project_costs(get(startup_data, "team_size", Num(1)).v, funding_stage)
    IN [ revenue_projections |-> revenue_projections,
         cost_projections |-> cost_projections,
         cash_flow_projections |->
             _project_cash_flow(revenue_projections, cost_projections),
         unit_economics |-> _calculate_unit_economics(startup_data),
         valuation_model |-> _calculate_valuation(revenue_projections, funding_stage),
         key_metrics |-> _calculate_key_metrics(revenue_projections, cost_projections) ]

\* financial_modeler.py 46-57
FinancialModel(startup_data, proj, scenarios) ==
    [ startup_name |-> IF startup_data.name = "missing" THEN None ELSE startup_data.name,
      projection_period |-> "36 months",
      revenue_projections |-> proj.revenue_projections,
      cost_projections |-> proj.cost_projections,
      cash_flow_projections |-> proj.cash_flow_projections,
      unit_economics |-> proj.unit_economics,
      valuation_model |-> proj.valuation_model,
      key_metrics |-> proj.key_metrics,
      scenarios |-> [ base_case |-> scenarios[1], optimistic |-> scenarios[2],
                      pessimistic |-> scenarios[3] ] ]

ScenarioSlots == << "base_case", "optimistic", "pessimistic" >>

\* A plausible slip: the optimistic and pessimistic factors are exchanged.
ScenarioDataSwapped(startup_data, slot) ==
    CASE slot = "base_case" -> startup_data
      [] slot = "optimistic" ->
            [ startup_data EXCEPT !.current_revenue =
                Num(RoundDiv(get(startup_data, "current_revenue", Num(0)).v * 8, 10)) ]
      [] slot = "pessimistic" ->
            [ startup_data EXCEPT !.current_revenue =
                Num(RoundDiv(get(startup_data, "current_revenue", Num(0)).v * 12, 10)) ]

\* financial_modeler.py 255-266: the mapping each scenario is computed from
ScenarioData(startup_data, slot) ==
    CASE slot = "base_case" -> startup_data
      [] slot = "optimistic" ->
            [ startup_data EXCEPT !.current_revenue =
                Num(RoundDiv(get(startup_data, "current_revenue", Num(0)).v * 12, 10)) ]
      [] slot = "pessimistic" ->
            [ startup_data EXCEPT !.current_revenue =
                Num(RoundDiv(get(startup_data, "current_revenue", Num(0)).v * 8, 10)) ]

NoProjections == [ kind |-> None ]

\* A plausible slip: the scenario's revenue is assigned in the mapping
\* itself, no copy being made.
ForkedInPlace(startup_data, slot) ==
    CASE slot = "base_case" -> startup_data
      [] slot = "optimistic" ->
            [ startup_data EXCEPT !.current_revenue =
                Num(RoundDiv(get(startup_data, "current_revenue", Num(0)).v * 12, 10)) ]
      [] slot = "pessimistic" ->
            [ startup_data EXCEPT !.current_revenue =
                Num(RoundDiv(get(startup_data, "current_revenue", Num(0)).v * 8, 10)) ]

\* financial_modeler.py 259-260, 264-265: what the mapping _create_scenarios
\* was passed holds after the fork of a scenario: the assignment goes to a
\* .copy(), the mapping itself is left as it was
MappingAfterFork(startup_data, slot) == startup_data

\* a frame of create_financial_model; is_callers tells whether its
\* startup_data is the caller's own mapping object (passed on as it is to
\* base_case) or a copy
NewFrame(depth, slot, startup_data, is_callers) ==
    [ depth |-> depth, slot |-> slot, data |-> startup_data, pc |-> "entered",
      proj |-> NoProjections, scenarios |-> <<>>, exc |-> None,
      is_callers |-> is_callers ]

InitFin ==
    /\ AppIdle
    /\ GenIdle
    /\ FbIdle
    /\ MrIdle
    /\ PoolIdle
    /\ stack = <<>>
    /\ fin_pc = "idle"
    /\ fin_result = [ kind |-> None ]
    /\ caller_data \in StartupData
    /\ rng_seed \in Seeds
    /\ rng_pos = 0
    /\ calls = 0
    /\ handled = {}
    /\ limit_room \in BOOLEAN

Top == stack[Len(stack)]
Popped == SubSeq(stack, 1, Len(stack) - 1)
SetTop(frame) == [ stack EXCEPT ![Len(stack)] = frame ]

\* the caller awaits create_financial_model(startup_data)
FinCall ==
    /\ fin_pc = "idle"
    /\ stack' = << NewFrame(1, "top", caller_data, TRUE) >>
    /\ fin_pc' = "running"
    /\ calls' = calls + 1
    /\ UNCHANGED <<fin_result, caller_data, rng_seed, rng_pos, handled>>
    /\ UNCHANGED <<gen_vars, fb_vars, limit_room, mr_vars, pool_vars, app_vars>>

\* financial_modeler.py 30-55: the body up to the call of _create_scenarios
Project ==
    /\ fin_pc = "running"
    /\ Top.pc = "entered"
    /\ IF Top.depth >= MaxDepth
       THEN /\ stack' = SetTop([ Top EXCEPT !.pc = "except", !.exc = "RecursionError" ])
            /\ UNCHANGED rng_pos
       ELSE IF FirstFailure(Top.data) # "none"
       THEN /\ stack' = SetTop([ Top EXCEPT !.pc = "except", !.exc = "TypeError" ])
            /\ rng_pos' = rng_pos + DrawsTaken(Top.data)
       ELSE /\ stack' = SetTop([ Top EXCEPT !.pc = "scenarios",
                                            !.proj = Projections(Top.data, rng_seed,
                                                                 rng_pos) ])
            /\ rng_pos' = rng_pos + DrawsTaken(Top.data)
    /\ UNCHANGED <<fin_pc, fin_result, caller_data, rng_seed, calls, handled>>
    /\ UNCHANGED <<gen_vars, fb_vars, limit_room, mr_vars, pool_vars, app_vars>>

\* financial_modeler.py 256, 261, 266: _create_scenarios awaits
\* create_financial_model for its next scenario
ScenarioCall ==
    /\ fin_pc = "running"
    /\ Top.pc = "scenarios"
    /\ Len(Top.scenarios) < Len(ScenarioSlots)
    /\ LET slot == ScenarioSlots[Len(Top.scenarios) + 1]
           after == MappingAfterFork(Top.data, slot)
       IN /\ stack' = Append(SetTop([ Top EXCEPT !.data = after ]),
                             NewFrame(Top.depth + 1, slot,
                                      ScenarioData(Top.data, slot),
                                      Top.is_callers /\ slot = "base_case"))
          /\ caller_data' = IF Top.is_callers THEN after ELSE caller_data
    /\ calls' = calls + 1
    /\ UNCHANGED <<fin_pc, fin_result, rng_seed, rng_pos, handled>>
    /\ UNCHANGED <<gen_vars, fb_vars, limit_room, mr_vars, pool_vars, app_vars>>

\* the frame on top returns `result` to the frame that awaits it
Deliver(result) ==
    IF Len(stack) = 1
    THEN /\ stack' = <<>>
         /\ fin_result' = result
         /\ fin_pc' = "returned"
    ELSE /\ stack' = [ Popped EXCEPT ![Len(stack) - 1].scenarios = Append(@, result) ]
         /\ UNCHANGED <<fin_result, fin_pc>>

\* the frame on top raises `exc` into the frame that awaits it
Propagate(exc) ==
    IF Len(stack) = 1
    THEN /\ stack' = <<>>
         /\ fin_pc' = "raised"
         /\ UNCHANGED fin_result
    ELSE /\ stack' = [ Popped EXCEPT ![Len(stack) - 1].pc = "except",
                                     ![Len(stack) - 1].exc = exc ]
         /\ UNCHANGED <<fin_result, fin_pc>>

\* financial_modeler.py 46-60: the three scenarios are in; return the model
ReturnModel ==
    /\ fin_pc = "running"
    /\ Top.pc = "scenarios"
    /\ Len(Top.scenarios) = Len(ScenarioSlots)
    /\ Deliver(FinancialModel(Top.data, Top.proj, Top.scenarios))
    /\ UNCHANGED <<caller_data, rng_seed, rng_pos, calls, handled>>
    /\ UNCHANGED <<gen_vars, fb_vars, limit_room, mr_vars, pool_vars, app_vars>>

\* A plausible slip: the except clause logs and re-raises.
except_reraises(frame, room) == [ does |-> "raise", value |-> frame.exc ]

\* financial_modeler.py 62-64: the except clause.  With no room left on the
\* interpreter's stack its own calls raise RecursionError.
except_clause(frame, room) ==
    IF room
    THEN [ does |-> "return", value |-> _create_fallback_financial_model(frame.data) ]
    ELSE [ does |-> "raise", value |-> "RecursionError" ]

\* whether the except clause of the frame finds room for its calls (the
\* logger's and _create_fallback_financial_model's): it does, except in a
\* frame the recursion limit stopped, where the interpreter's stack is as
\* deep every time and the answer is the same every time
RoomChoices(frame) ==
    IF frame.exc = "RecursionError" /\ frame.depth >= MaxDepth /\ frame.depth > 1
    THEN { limit_room }
    ELSE { TRUE }

\* financial_modeler.py 62-64
HandleException ==
    /\ fin_pc = "running"
    /\ Top.pc = "except"
    /\ \E room \in RoomChoices(Top) :
          LET outcome == except_clause(Top, room)
          IN IF outcome.does = "return"
             THEN Deliver(outcome.value)
             ELSE Propagate(outcome.value)
    /\ handled' = handled \cup { [ depth |-> Top.depth, exc |-> Top.exc ] }
    /\ UNCHANGED <<caller_data, rng_seed, rng_pos, calls>>
    /\ UNCHANGED <<gen_vars, fb_vars, limit_room, mr_vars, pool_vars, app_vars>>

NextFin ==
    \/ FinCall
    \/ Project
    \/ ScenarioCall
    \/ ReturnModel
    \/ HandleException

SpecFin == InitFin /\ [][NextFin]_vars

(***************************************************************************)
(* Claims about create_financial_model.                                    *)
(***************************************************************************)
\* the records create_financial_model has returned so far: the caller's, and
\* the scenarios delivered to the frames still running
ReturnedModels ==
    (IF fin_pc = "returned" THEN { fin_result } ELSE {})
        \cup UNION { { stack[k].scenarios[i] : i \in 1..Len(stack[k].scenarios) } :
                       k \in 1..Len(stack) }

ComputedModels == { model \in ReturnedModels : ~IsFallback(model) }

\* C6: the chain create_financial_model -> _create_scenarios ->
\* create_financial_model is finite of itself (the interpreter's recursion
\* limit is never what ends it), and every model computed from a usable
\* mapping holds exactly base_case, optimistic and pessimistic, each of them
\* a computed model.
C6_ScenarioChainFinite ==
    /\ \A h \in handled : h.exc # "RecursionError"
    /\ \A model \in ComputedModels :
          /\ DOMAIN model.scenarios = { "base_case", "optimistic", "pessimistic" }
          /\ \A slot \in DOMAIN model.scenarios : ~IsFallback(model.scenarios[slot])

\* C7: the outermost call never raises; the record it returns is the fallback
\* record of its input exactly when its own body failed, and a record
\* computed without failure has no source marker.
C7_NeverRaises ==
    /\ fin_pc # "raised"
    /\ fin_pc = "returned" =>
          /\ IsFallback(fin_result) <=> (\E h \in handled : h.depth = 1)
          /\ IsFallback(fin_result) =>
                /\ fin_result = _create_fallback_financial_model(caller_data)
                /\ fin_result.source = "fallback_data"
                /\ fin_result.revenue_projections.total_revenue_36_months = 0
                /\ fin_result.cost_projections.total_costs_36_months = 0
                /\ fin_result.cash_flow_projections.total_net_cash_flow = 0
          /\ FirstFailure(caller_data) # "none" => IsFallback(fin_result)

\* C7 witness: the cost projection threw on a team_size that is no number,
\* after the revenue projection had succeeded, and the caller got the
\* fallback record.
C7_Witness ==
    /\ fin_pc = "returned"
    /\ IsFallback(fin_result)
    /\ caller_data.team_size = NotANumber
    /\ caller_data.current_revenue.kind = "num"
    /\ [ depth |-> 1, exc |-> "TypeError" ] \in handled

\* the mapping a scenario has to be computed from, written out
ScaledCopy(startup_data, slot) ==
    [ f \in DOMAIN startup_data |->
        IF f = "current_revenue" /\ slot # "base_case"
        THEN Num(RoundDiv((IF startup_data.current_revenue.kind = "missing"
                           THEN 0 ELSE startup_data.current_revenue.v)
                              * (IF slot = "optimistic" THEN 12 ELSE 8), 10))
        ELSE startup_data[f] ]

\* C8: every scenario call runs on a copy of its caller's mapping that
\* differs only in current_revenue, times 1.2 for optimistic and times 0.8
\* for pessimistic, base_case on the mapping itself; and every scenario
\* delivered is what the pipeline makes of that copy: its unit economics and
\* its cost projection are those of the copy, not scaled base-case figures.
C8_ScenariosRecomputed ==
    /\ \A k \in 2..Len(stack) :
          /\ stack[k].slot \in { "base_case", "optimistic", "pessimistic" }
          /\ stack[k].data = ScaledCopy(stack[k - 1].data, stack[k].slot)
    /\ \A k \in 1..Len(stack) : \A i \in 1..Len(stack[k].scenarios) :
          LET copy == ScaledCopy(stack[k].data, ScenarioSlots[i])
              model == stack[k].scenarios[i]
          IN IF IsFallback(model)
             THEN model = _create_fallback_financial_model(copy)
             ELSE /\ model.unit_economics = _calculate_unit_economics(copy)
                  /\ model.cost_projections =
                        _project_costs(get(copy, "team_size", Num(1)).v,
                                       FundingStageOf(copy))
                  /\ model.cash_flow_projections =
                        _project_cash_flow(model.revenue_projections,
                                           model.cost_projections)

\* C8 witness: a model was returned whose optimistic and pessimistic
\* scenarios are computed models of a positive revenue, with unit economics
\* above and below those of base_case.
C8_Witness ==
    /\ fin_pc = "returned"
    /\ ~IsFallback(fin_result)
    /\ caller_data.current_revenue.kind = "num"
    /\ caller_data.current_revenue.v > 0
    /\ \A slot \in DOMAIN fin_result.scenarios : ~IsFallback(fin_result.scenarios[slot])
    /\ fin_result.scenarios.optimistic.unit_economics.average_revenue_per_user
          > fin_result.scenarios.base_case.unit_economics.average_revenue_per_user
    /\ fin_result.scenarios.pessimistic.unit_economics.average_revenue_per_user
          < fin_result.scenarios.base_case.unit_economics.average_revenue_per_user

\* C9: with the random source seeded, the month-1 revenue of the optimistic
\* (pessimistic) scenario inside a returned model equals the month-1 revenue
\* of a standalone run from the same seed with current_revenue times 1.2
\* (times 0.8).
C9_ScenarioSeededAlone ==
    (fin_pc = "returned" /\ ~IsFallback(fin_result)) =>
        \A slot \in { "optimistic", "pessimistic" } :
            ~IsFallback(fin_result.scenarios[slot]) =>
                fin_result.scenarios[slot].revenue_projections.monthly_revenue[1].revenue
                    = _project_revenue(ScaledCopy(caller_data, slot).current_revenue.v,
                                       FundingStageOf(caller_data), rng_seed, 0)
                          .monthly_revenue[1].revenue

\* the projections computed so far: those of the frames still running and
\* those inside the models returned
ComputedProjections ==
    { [ revenue_projections |-> stack[k].proj.revenue_projections,
        cost_projections |-> stack[k].proj.cost_projections,
        cash_flow_projections |-> stack[k].proj.cash_flow_projections ] :
        k \in { j \in 1..Len(stack) : "cash_flow_projections" \in DOMAIN stack[j].proj } }
      \cup { [ revenue_projections |-> model.revenue_projections,
               cost_projections |-> model.cost_projections,
               cash_flow_projections |-> model.cash_flow_projections ] :
               model \in ComputedModels }

\* C10: in every cash-flow projection and for every month m,
\* cumulative_cash[m] is 1,000,000 plus the sum of net_cash_flow over months
\* 1..m, to within a cent, and net_cash_flow[k] is the revenue of month k of
\* the revenue projection less the total_costs of month k of the cost
\* projection.
C10_CumulativeCash ==
    \A p \in ComputedProjections :
        LET cf == p.cash_flow_projections.monthly_cash_flow
            net == [ k \in 1..months |-> cf[k].net_cash_flow ]
        IN \A m \in 1..months :
              /\ cf[m].net_cash_flow
                    = p.revenue_projections.monthly_revenue[m].revenue
                        - p.cost_projections.monthly_costs[m].total_costs
              /\ Abs(cf[m].cumulative_cash - (100000000 + SumTo(net, 1, m))) <= 1

\* C10 witness: a computed model was returned with revenue and costs both
\* positive and the balance of month 36 different from that of month 1.
C10_Witness ==
    /\ fin_pc = "returned"
    /\ ~IsFallback(fin_result)
    /\ fin_result.revenue_projections.monthly_revenue[1].revenue > 0
    /\ fin_result.cost_projections.monthly_costs[1].total_costs > 0
    /\ fin_result.cash_flow_projections.monthly_cash_flow[months].cumulative_cash
          # fin_result.cash_flow_projections.monthly_cash_flow[1].cumulative_cash

(***************************************************************************)
(* Claims about the projections and the unit economics.                    *)
(***************************************************************************)
\* the runs whose projections are at hand together with the mapping they
\* were computed from: the frames past their projections, and the caller's
\* once it has its model
ProjectedRuns ==
    { [ data |-> stack[k].data,
        revenue_projections |-> stack[k].proj.revenue_projections,
        cost_projections |-> stack[k].proj.cost_projections,
        unit_economics |-> stack[k].proj.unit_economics ] :
        k \in { j \in 1..Len(stack) : "unit_economics" \in DOMAIN stack[j].proj } }
      \cup (IF fin_pc = "returned" /\ ~IsFallback(fin_result)
            THEN { [ data |-> caller_data,
                     revenue_projections |-> fin_result.revenue_projections,
                     cost_projections |-> fin_result.cost_projections,
                     unit_economics |-> fin_result.unit_economics ] }
            ELSE {})

\* C11: in every revenue projection, for every seed and every draw of the
\* jitter, revenue[m] >= 0.8 x revenue[m-1] for every month m, revenue[0]
\* being the current_revenue seed.  (revenue in cents, the seed in
\* thousandths of a dollar.)
C11_GrowthFloor ==
    \A run \in ProjectedRuns :
        LET revenue == [ m \in 1..months |->
                           run.revenue_projections.monthly_revenue[m].revenue ]
            seed == get(run.data, "current_revenue", Num(0)).v
        IN /\ 100 * revenue[1] >= 8 * seed
           /\ \A m \in 2..months : 10 * revenue[m] >= 8 * revenue[m - 1]

\* C12: every monthly cost record has team_size <= 100, whatever the initial
\* team_size and the funding stage.  (team_size in tenths of a head.)
C12_TeamCap ==
    \A run \in ProjectedRuns :
        \A m \in 1..months :
            run.cost_projections.monthly_costs[m].team_size <= 100 * 10

\* C12 witness: a model was returned whose team grew from under the cap to
\* the cap and stayed there.
C12_Witness ==
    /\ fin_pc = "returned"
    /\ ~IsFallback(fin_result)
    /\ fin_result.cost_projections.monthly_costs[1].team_size < 100 * 10
    /\ fin_result.cost_projections.monthly_costs[months - 1].team_size = 100 * 10
    /\ fin_result.cost_projections.monthly_costs[months].team_size = 100 * 10

\* C13: unit economics equal the reference formulas exactly: ARPU =
\* current_revenue / customer_count when customer_count > 0 and 0 when it is
\* 0; ltv_cac_ratio = 5.0; payback_period_months = 100 / ARPU when ARPU > 0
\* and the unbounded sentinel when ARPU is 0.
C13_UnitEconomicsExact ==
    \A run \in ProjectedRuns :
        LET ue == run.unit_economics
            current_revenue == get(run.data, "current_revenue", Num(0)).v
            customer_count == get(run.data, "customer_count", Num(1)).v
        IN /\ customer_count > 0 =>
                 ue.average_revenue_per_user * 10 * customer_count = current_revenue
           /\ customer_count = 0 => ue.average_revenue_per_user = 0
           /\ ue.ltv_cac_ratio = 500
           /\ (customer_count > 0 /\ current_revenue > 0) =>
                 /\ ue.payback_period_months.kind = "num"
                 /\ ue.payback_period_months.v * current_revenue
                       = 100 * 10000 * customer_count
           /\ (customer_count = 0 \/ current_revenue = 0) =>
                 ue.payback_period_months = Unbounded

\* C13, amended: the unit economics are the reference formulas rounded to the
\* precision of the record: ARPU is current_revenue / customer_count to the
\* nearest cent when customer_count > 0 and 0 when it is 0; ltv_cac_ratio is
\* 5.0; payback_period_months is 100 / ARPU to the nearest tenth when ARPU > 0
\* and the unbounded sentinel when ARPU is 0 or negative; current_revenue
\* 50000 with 100 customers gives ARPU 500 and payback 0.2.
C13_UnitEconomicsRounded ==
    /\ \A run \in ProjectedRuns :
          LET ue == run.unit_economics
              current_revenue == get(run.data, "current_revenue", Num(0)).v
              customer_count == get(run.data, "customer_count", Num(1)).v
          IN /\ customer_count > 0 =>
                   2 * Abs(ue.average_revenue_per_user * 10 * customer_count
                               - current_revenue) <= 10 * customer_count
             /\ customer_count = 0 => ue.average_revenue_per_user = 0
             /\ ue.ltv_cac_ratio = 500
             /\ (customer_count > 0 /\ current_revenue > 0) =>
                   /\ ue.payback_period_months.kind = "num"
                   /\ 2 * Abs(ue.payback_period_months.v * current_revenue
                                  - 100 * 10000 * customer_count) <= current_revenue
             /\ (customer_count = 0 \/ current_revenue <= 0) =>
                   ue.payback_period_months = Unbounded
    /\ LET example == _calculate_unit_economics(
                          [ name |-> "Acme", current_revenue |-> Num(50000 * 1000),
                            customer_count |-> Num(100), team_size |-> Num(1),
                            funding_stage |-> "seed" ])
       IN /\ example.average_revenue_per_user = 500 * 100
          /\ example.ltv_cac_ratio = 500
          /\ example.payback_period_months = Num(2)

\* C13 witness: a model was returned for 3 customers and a revenue of $50,
\* with ARPU 16.67 and payback 6.0 months; and one for no customers.
C13_Witness ==
    /\ fin_pc = "returned"
    /\ ~IsFallback(fin_result)
    /\ caller_data.current_revenue = Num(50000)
    /\ caller_data.customer_count = Num(3)
    /\ fin_result.unit_economics.average_revenue_per_user = 1667
    /\ fin_result.unit_economics.payback_period_months = Num(60)
    /\ fin_result.scenarios.base_case.unit_economics
          = fin_result.unit_economics

(***************************************************************************)
(* Further claims about generate_pitch_deck_content.                       *)
(***************************************************************************)
\* the responses _call_openai can hand to a slide generator
Responses ==
    { _call_openai(text) : text \in { t \in ProviderTexts : _call_openai(t).ok } }

\* C14: in the structured output of the funding slide the funding amount, and
\* in that of the market slide TAM, SAM and SOM, equal the profile's value
\* whenever the profile has one, whatever the capability returned: both in
\* what the slide generators build from any response and in the slides a
\* batch returns for a profile that has every required field.
C14_ProfileFactsPreferred ==
    /\ startup.name # None =>
          \A response \in Responses :
              /\ startup.funding_ask # None =>
                    SlideFacts(startup, "funding_ask", response).funding_amount
                        = startup.funding_ask
              /\ startup.market_size_tam # None =>
                    SlideFacts(startup, "market_opportunity", response).market_size
                        = [ tam |-> startup.market_size_tam,
                            sam |-> startup.market_size_sam,
                            som |-> startup.market_size_som ]
    /\ (batch_pc = "returned" /\ ~_prepare_context_data_raises(startup)) =>
          \A i \in DOMAIN slides_content :
              /\ (slide_types[i] = "funding_ask" /\ startup.funding_ask # None
                     /\ ~CapabilityFailed(jobs[i])) =>
                    /\ "facts" \in DOMAIN slides_content[i].content
                    /\ slides_content[i].content.facts.funding_amount
                          = startup.funding_ask
              /\ (slide_types[i] = "market_opportunity"
                     /\ startup.market_size_tam # None
                     /\ ~CapabilityFailed(jobs[i])) =>
                    /\ "facts" \in DOMAIN slides_content[i].content
                    /\ slides_content[i].content.facts.market_size.tam
                          = startup.market_size_tam

\* C15: when the profile lacks industry, funding_stage or revenue_model the
\* batch call does not return a list of contents: it fails towards its
\* caller.
C15_MissingFieldPropagates ==
    _prepare_context_data_raises(startup) => batch_pc # "returned"

\* the text the capability returned is not valid JSON
NotJSON(text) == text \in { "brace_garbage", "plain_text" }

\* C16: a job whose capability call returned text that is not valid JSON,
\* whatever its first character, succeeds with the text as freeform content;
\* it does not fail and its position in the batch holds no fallback.
C16_FreeformRecovered ==
    \A i \in DOMAIN jobs :
        NotJSON(jobs[i].provider) =>
            /\ jobs[i].pc = "succeeded"
            /\ jobs[i].result.content.generated = "content_only"
            /\ batch_pc = "returned" => slides_content[i].model_used # "fallback"

\* C17: when generate_pitch_deck_content has ended, by a return or by a
\* raise, every job of the batch has succeeded or failed: none is still
\* pending (created, or waiting for a worker) or running.
C17_ReturnsAfterAllJobs ==
    batch_pc \in { "returned", "raised" } =>
        /\ Len(jobs) = Len(slide_types)
        /\ \A i \in DOMAIN jobs :
              /\ jobs[i].pc \notin { "created", "submitted", "inflight" }
              /\ jobs[i].pc \in { "succeeded", "failed" }
              /\ i \in { done_order[k] : k \in DOMAIN done_order }

\* C17 witness: the batch returned after time had passed, one job having
\* failed before its call and two having waited for the capability, the one
\* dispatched later ending first.
C17_Witness ==
    /\ batch_pc = "returned"
    /\ clock > 0
    /\ \E i, j \in DOMAIN jobs :
          /\ i < j
          /\ jobs[i].provider # None
          /\ jobs[j].provider # None
          /\ PositionIn(done_order, j) < PositionIn(done_order, i)
    /\ \E i \in DOMAIN jobs : jobs[i].pc = "failed" /\ jobs[i].provider = None

(***************************************************************************)
(* The executor of one ContentGenerator (content_generator.py 43): every   *)
(* _call_openai of every batch running on the generator hands its call to  *)
(* self.executor, a ThreadPoolExecutor: the calls wait in its queue in the *)
(* order of submission and each of its worker threads runs one at a time.  *)
(***************************************************************************)
MaxCalls == 7        \* calls submitted to the executor in one run
Batches == { 1, 2 }  \* the batches running concurrently on the generator

Running(cs) == { c \in DOMAIN cs : cs[c].pc = "running" }
Queued(cs) == { c \in DOMAIN cs : cs[c].pc = "queued" }

\* A plausible slip: a thread per call (the loop's default executor sized
\* without a bound).
worker_per_call(cs) == TRUE

\* content_generator.py 43: ThreadPoolExecutor(max_workers=5) has a thread
\* free for a queued call while fewer than max_workers calls are running
worker_available(cs) == Cardinality(Running(cs)) < max_workers

InitPool ==
    /\ AppIdle
    /\ GenIdle
    /\ FbIdle
    /\ FinIdle
    /\ MrIdle
    /\ pool_calls = <<>>

\* content_generator.py 422-434: a job of batch b reaches run_in_executor
run_in_executor(b) ==
    /\ Len(pool_calls) < MaxCalls
    /\ pool_calls' = Append(pool_calls, [ batch |-> b, pc |-> "queued" ])
    /\ UNCHANGED <<gen_vars, fb_vars, fin_vars, mr_vars, app_vars>>

\* a worker thread takes the call at the head of the queue
WorkerTakes ==
    /\ Queued(pool_calls) # {}
    /\ worker_available(pool_calls)
    /\ LET c == CHOOSE q \in Queued(pool_calls) :
                    \A r \in Queued(pool_calls) : q <= r
       IN pool_calls' = [ pool_calls EXCEPT ![c].pc = "running" ]
    /\ UNCHANGED <<gen_vars, fb_vars, fin_vars, mr_vars, app_vars>>

\* content_generator.py 425-434: chat.completions.create returns or raises
CallEnds(c) ==
    /\ pool_calls[c].pc = "running"
    /\ pool_calls' = [ pool_calls EXCEPT ![c].pc = "done" ]
    /\ UNCHANGED <<gen_vars, fb_vars, fin_vars, mr_vars, app_vars>>

NextPool ==
    \/ \E b \in Batches : run_in_executor(b)
    \/ WorkerTakes
    \/ \E c \in DOMAIN pool_calls : CallEnds(c)

SpecPool == InitPool /\ [][NextPool]_vars

\* C18: at every moment at most 5 calls to the capability are in flight for
\* the generator, however many calls its batches have submitted.
C18_AtMostFiveInFlight ==
    Cardinality({ c \in DOMAIN pool_calls : pool_calls[c].pc = "running" }) <= 5

\* C18 witness: five calls of two concurrent batches are in flight and two
\* more wait for a worker.
C18_Witness ==
    /\ Cardinality(Running(pool_calls)) = 5
    /\ Cardinality(Queued(pool_calls)) >= 2
    /\ \E c, d \in Running(pool_calls) : pool_calls[c].batch # pool_calls[d].batch

(***************************************************************************)
(* MarketResearcher.calculate_tam_sam_som.  Amounts are whole dollars; a   *)
(* percentage is in hundredths.  _get_market_size stands in for an         *)
(* external source of market data: in the repository it returns the sample *)
(* mapping; the other outcomes are what such a source can do.              *)
(***************************************************************************)
Industries == { "saas", "fintech", "healthtech" }
TargetMarkets == { "smb", "enterprise" }
GeographicScopes == { "global", "us" }

sample_total_market_size == 1000000000
sam_percentage == 15
som_percentage == 3

\* market_researcher.py 106-115 and what an external source can do instead:
\* return a mapping with a total_market_size, one without it, or raise
MarketSources ==
    { "sample_data", "size_0", "size_10000", "size_2000000", "size_negative",
      "no_size", "raise" }

\* market_researcher.py 106-115: _get_market_size
_get_market_size(source) ==
    CASE source = "sample_data" ->
            [ total_market_size |-> sample_total_market_size, unit |-> "USD",
              year |-> 2024, source |-> "sample_data" ]
      [] source = "size_0" -> [ total_market_size |-> 0, unit |-> "USD" ]
      [] source = "size_10000" -> [ total_market_size |-> 10000, unit |-> "USD" ]
      [] source = "size_2000000" -> [ total_market_size |-> 2000000, unit |-> "USD" ]
      [] source = "size_negative" -> [ total_market_size |-> -10000, unit |-> "USD" ]
      [] source = "no_size" -> [ unit |-> "USD" ]

\* A plausible slip: som taken as its fraction of tam, not of sam.
TamSamSomOfTam(market_size, now) ==
    LET tam == IF "total_market_size" \in DOMAIN market_size
               THEN market_size.total_market_size ELSE 0
    IN [ tam |-> tam, sam |-> MulPct(tam, sam_percentage),
         som |-> MulPct(tam, som_percentage),
         tam_percentage |-> 100, sam_percentage |-> sam_percentage,
         som_percentage |-> som_percentage, currency |-> "USD",
         calculation_date |-> now ]

\* market_researcher.py 76-95: the result computed from the market size
TamSamSom(market_size, now) ==
    LET tam == IF "total_market_size" \in DOMAIN market_size
               THEN market_size.total_market_size ELSE 0
        sam == MulPct(tam, sam_percentage)
        som == MulPct(sam, som_percentage)
    IN [ tam |-> tam, sam |-> sam, som |-> som,
         tam_percentage |-> 100, sam_percentage |-> sam_percentage,
         som_percentage |-> som_percentage, currency |-> "USD",
         calculation_date |-> now ]

\* market_researcher.py 232-244
_create_fallback_tam_sam_som(now) ==
    [ tam |-> 1000000000, sam |-> 150000000, som |-> 4500000,
      tam_percentage |-> 100, sam_percentage |-> 15, som_percentage |-> 3,
      currency |-> "USD", calculation_date |-> now, source |-> "fallback_data" ]

InitMarket ==
    /\ AppIdle
    /\ GenIdle
    /\ FbIdle
    /\ FinIdle
    /\ PoolIdle
    /\ mr_pc = "called"
    /\ mr_args \in [ industry : Industries, target_market : TargetMarkets,
                     geographic_scope : GeographicScopes ]
    /\ mr_source \in MarketSources
    /\ mr_market_size = [ k \in {} |-> None ]
    /\ mr_result = [ k \in {} |-> None ]

\* market_researcher.py 74: await self._get_market_size(industry)
GetMarketSize ==
    /\ mr_pc = "called"
    /\ IF mr_source = "raise"
       THEN /\ mr_pc' = "failed"
            /\ UNCHANGED mr_market_size
       ELSE /\ mr_pc' = "sized"
            /\ mr_market_size' = _get_market_size(mr_source)
    /\ UNCHANGED <<mr_args, mr_source, mr_result>>
    /\ UNCHANGED <<gen_vars, fb_vars, fin_vars, pool_vars, app_vars>>

\* market_researcher.py 76-99: compute and return
CalculateTamSamSom(now) ==
    /\ mr_pc = "sized"
    /\ mr_result' = TamSamSom(mr_market_size, now)
    /\ mr_pc' = "returned"
    /\ UNCHANGED <<mr_args, mr_source, mr_market_size>>
    /\ UNCHANGED <<gen_vars, fb_vars, fin_vars, pool_vars, app_vars>>

\* market_researcher.py 102-104: the except clause
FallbackTamSamSom(now) ==
    /\ mr_pc = "failed"
    /\ mr_result' = _create_fallback_tam_sam_som(now)
    /\ mr_pc' = "returned"
    /\ UNCHANGED <<mr_args, mr_source, mr_market_size>>
    /\ UNCHANGED <<gen_vars, fb_vars, fin_vars, pool_vars, app_vars>>

NextMarket ==
    \/ GetMarketSize
    \/ \E now \in 0..MaxClock : CalculateTamSamSom(now)
    \/ \E now \in 0..MaxClock : FallbackTamSamSom(now)

SpecMarket == InitMarket /\ [][NextMarket]_vars

\* C20: the record calculate_tam_sam_som returns has sam = 0.15 x tam and
\* som = 0.03 x sam, hence som <= sam <= tam, on the normal path (tam being
\* the total_market_size of the source, 0 when it gives none) and on the
\* fallback path; tam = 1,000,000,000 gives sam = 150,000,000 and
\* som = 4,500,000.
C20_TamSamSom ==
    mr_pc = "returned" =>
        /\ mr_result.tam % 100 = 0
        /\ mr_result.sam = (mr_result.tam \div 100) * 15
        /\ mr_result.sam % 100 = 0
        /\ mr_result.som = (mr_result.sam \div 100) * 3
        /\ mr_result.tam >= 0 =>
              (mr_result.som <= mr_result.sam /\ mr_result.sam <= mr_result.tam)
        /\ (mr_source \notin { "raise", "no_size" }) =>
              mr_result.tam = mr_market_size.total_market_size
        /\ mr_result.tam = 1000000000 =>
              (mr_result.sam = 150000000 /\ mr_result.som = 4500000)

\* C20 witness: the call returned from the sample market size with the
\* documented figures, not on the fallback path.
C20_Witness ==
    /\ mr_pc = "returned"
    /\ mr_source = "sample_data"
    /\ "source" \notin DOMAIN mr_result
    /\ mr_result.tam = 1000000000
    /\ mr_result.sam = 150000000
    /\ mr_result.som = 4500000

(***************************************************************************)
(* One caller using both services on its profile: a batch of slide         *)
(* contents and a financial model, in any interleaving.                    *)
(***************************************************************************)
CoreProfiles ==
    { s \in Profiles : s.name = "Acme" /\ s.funding_stage = "seed"
                          /\ s.funding_ask # None }

CoreRequests ==
    { [ given |-> TRUE, list |-> << "market_opportunity", "funding_ask" >> ] }

CoreStartupData ==
    { d \in StartupData :
        /\ d.current_revenue = Num(50000)
        /\ d.customer_count = Num(100)
        /\ d.team_size \in { Num(1), NotANumber }
        /\ d.funding_stage = "seed" }

InitCore ==
    /\ AppIdle
    /\ startup \in CoreProfiles
    /\ requested \in CoreRequests
    /\ slide_types = <<>>
    /\ jobs = <<>>
    /\ batch_pc = "called"
    /\ slides_content = <<>>
    /\ done_order = <<>>
    /\ clock = 0
    /\ FbIdle
    /\ MrIdle
    /\ PoolIdle
    /\ stack = <<>>
    /\ fin_pc = "idle"
    /\ fin_result = [ kind |-> None ]
    /\ caller_data \in CoreStartupData
    /\ rng_seed = 0
    /\ rng_pos = 0
    /\ calls = 0
    /\ handled = {}
    /\ limit_room \in BOOLEAN

NextCore == Next \/ NextFin

SpecCore == InitCore /\ [][NextCore]_vars

\* C19: no step of generate_pitch_deck_content changes any field of the
\* startup profile it was given, and no step of create_financial_model, the
\* forking of the scenarios included, changes the caller's startup_data
\* mapping, in particular its current_revenue.
C19_InputsNotMutated ==
    [][ /\ startup' = startup
        /\ caller_data' = caller_data
        /\ caller_data'.current_revenue = caller_data.current_revenue ]_vars

\* C19 witness: the batch has returned and so has a computed financial
\* model whose optimistic and pessimistic scenarios were forked with a
\* revenue other than the caller's, the caller's mapping holding its own.
C19_Witness ==
    /\ batch_pc = "returned"
    /\ \E i \in DOMAIN jobs : jobs[i].pc = "succeeded"
    /\ fin_pc = "returned"
    /\ ~IsFallback(fin_result)
    /\ ~IsFallback(fin_result.scenarios.optimistic)
    /\ ~IsFallback(fin_result.scenarios.pessimistic)
    /\ fin_result.scenarios.optimistic.unit_economics.average_revenue_per_user = 60
    /\ fin_result.scenarios.pessimistic.unit_economics.average_revenue_per_user = 40
    /\ caller_data.current_revenue = Num(50000)

C22_HandledOnceAtTop ==
    /\ \A h \in handled : h.depth = 1
    /\ Cardinality(handled) <= 1
    /\ (fin_pc = "returned" /\ handled # {}) => IsFallback(fin_result)
    /\ (fin_pc = "returned" /\ ~IsFallback(fin_result)) =>
          \A slot \in DOMAIN fin_result.scenarios :
              ~IsFallback(fin_result.scenarios[slot])

\* the monthly cash-flow records computed so far
CashFlowRecords ==
    UNION { { p.cash_flow_projections.monthly_cash_flow[m] : m \in 1..months } :
              p \in ComputedProjections }

\* C23: in each monthly cash-flow record runway_months is exactly
\* cumulative_cash / total_costs when total_costs > 0 and is the unbounded
\* sentinel exactly when total_costs is 0; it is never a number standing for
\* an overflow.  (runway in tenths of a month.)
C23_RunwayExact ==
    \A r \in CashFlowRecords :
        /\ r.runway_months.kind \in { "num", "inf" }
        /\ r.costs > 0 =>
              /\ r.runway_months.kind = "num"
              /\ (10 * (r.cumulative_cash % r.costs)) % r.costs = 0
              /\ r.runway_months.v
                    = 10 * (r.cumulative_cash \div r.costs)
                        + (10 * (r.cumulative_cash % r.costs)) \div r.costs
        /\ (r.runway_months = Unbounded) <=> (r.costs = 0)

\* C23, amended: in each monthly cash-flow record runway_months is
\* cumulative_cash / total_costs rounded to the nearest tenth when
\* total_costs > 0, and is the unbounded sentinel (the float infinity)
\* whenever total_costs is 0 or negative; it is never a finite number standing
\* for an overflow.
C23_RunwayRounded ==
    \A r \in CashFlowRecords :
        /\ r.runway_months.kind \in { "num", "inf" }
        /\ r.costs > 0 =>
              LET below == 10 * (r.cumulative_cash \div r.costs)
                             + (10 * (r.cumulative_cash % r.costs)) \div r.costs
                  rest == (10 * (r.cumulative_cash % r.costs)) % r.costs
              IN /\ r.runway_months.kind = "num"
                 /\ r.runway_months.v \in { below, below + 1 }
                 /\ r.runway_months.v = below => 2 * rest <= r.costs
                 /\ r.runway_months.v = below + 1 => 2 * rest >= r.costs
        /\ (r.runway_months = Unbounded) <=> (r.costs <= 0)

\* C23 witness: a model was returned for a team of 0, every month of it
\* without costs and with the sentinel for its runway, the base_case scenario
\* likewise.
C23_Witness ==
    /\ fin_pc = "returned"
    /\ ~IsFallback(fin_result)
    /\ caller_data.team_size = Num(0)
    /\ \A m \in 1..months :
          /\ fin_result.cash_flow_projections.monthly_cash_flow[m].costs = 0
          /\ fin_result.cash_flow_projections.monthly_cash_flow[m].runway_months
                = Unbounded
    /\ ~IsFallback(fin_result.scenarios.base_case)
    /\ fin_result.scenarios.base_case.cash_flow_projections.monthly_cash_flow[1]
          .runway_months = Unbounded

\* C24: every revenue projection holds exactly 36 monthly records, of month
\* 1..36 in order; cumulative_revenue of month m is the sum of the revenue
\* fields of months 1..m; annual_revenue has exactly 3 entries, each the sum
\* of the revenue of its twelve months; and
\* total_revenue_36_months equals the sum of annual_revenue and the
\* cumulative_revenue of month 36.
C24_RevenueStructure ==
    \A run \in ProjectedRuns :
        LET rp == run.revenue_projections
            revenue == [ m \in 1..Len(rp.monthly_revenue) |->
                           rp.monthly_revenue[m].revenue ]
        IN /\ Len(rp.monthly_revenue) = 36
           /\ \A m \in 1..36 :
                 /\ rp.monthly_revenue[m].month = m
                 /\ rp.monthly_revenue[m].cumulative_revenue
                       = SumTo(revenue, 1, m)
           /\ Len(rp.annual_revenue) = 3
           /\ \A y \in 1..3 :
                 rp.annual_revenue[y]
                   = SumTo(revenue, 12 * (y - 1) + 1, 12 * (y - 1) + 12)
           /\ rp.total_revenue_36_months = SumTo(rp.annual_revenue, 1, 3)
           /\ rp.total_revenue_36_months
                 = rp.monthly_revenue[36].cumulative_revenue

\* C24 witness: a model was returned whose revenue changes from month to
\* month, with a running total past the first month's revenue and three
\* years that differ.
C24_Witness ==
    /\ fin_pc = "returned"
    /\ ~IsFallback(fin_result)
    /\ LET rp == fin_result.revenue_projections
       IN /\ rp.monthly_revenue[1].revenue > 0
          /\ rp.monthly_revenue[2].revenue # rp.monthly_revenue[1].revenue
          /\ rp.monthly_revenue[36].cumulative_revenue
                > rp.monthly_revenue[1].revenue
          /\ rp.annual_revenue[1] < rp.annual_revenue[2]
          /\ rp.annual_revenue[2] < rp.annual_revenue[3]

(***************************************************************************)
(* utils/rate_limiter.py: the in-memory RateLimiter.  Times are whole      *)
(* seconds; each call reads time.time(), which has moved on by one of the  *)
(* amounts in Elapsed since the call before.                               *)
(***************************************************************************)
MaxRateCalls == 4

Clients == { "c1", "c2" }

\* the time between one call and the next: none, just under and exactly a
\* minute, and what brings a stored time to just under or exactly an hour
Elapsed == { 0, 59, 60, 3540 }

\* rate_limiter.py 34-37 and 28-31: the two windows, in seconds
minute_window == 60
hour_window == 3600

\* rate_limiter.py 28-31: the client's times of the last hour
kept_last_hour(times, current_time) ==
    SelectSeq(times, LAMBDA req_time : current_time - req_time < hour_window)

\* rate_limiter.py 34-37: requests_last_minute
requests_last_minute(times, current_time) ==
    Len(SelectSeq(times,
                  LAMBDA req_time : current_time - req_time < minute_window))

\* A plausible slip: the limits are compared with > instead of >=.
within_limits_inclusive(last_minute, last_hour, per_minute, per_hour) ==
    ~(last_minute > per_minute) /\ ~(last_hour > per_hour)

\* rate_limiter.py 41-47: neither limit is reached
within_limits(last_minute, last_hour, per_minute, per_hour) ==
    ~(last_minute >= per_minute) /\ ~(last_hour >= per_hour)

\* A plausible slip: the request is recorded before the limits are checked.
stored_after_any(kept, current_time, ok) == Append(kept, current_time)

\* rate_limiter.py 41-51: the client's list when is_allowed returns
stored_after(kept, current_time, ok) ==
    IF ok THEN Append(kept, current_time) ELSE kept

\* the client's stored list, or the empty list line 24-25 creates
StoredTimes(reqs, client_id) ==
    IF client_id \in DOMAIN reqs THEN reqs[client_id] ELSE <<>>

\* rate_limiter.py 15-18: a new limiter; the limits come from the
\* environment
InitRate ==
    /\ GenIdle
    /\ FbIdle
    /\ FinIdle
    /\ MrIdle
    /\ PoolIdle
    /\ QuotaIdle
    /\ DeckIdle
    /\ rate_limit_per_minute \in { 0, 1, 2 }
    /\ rate_limit_per_hour \in { 2, 3 }
    /\ requests = <<>>
    /\ rl_time = 0
    /\ rl_granted = [ c \in Clients |-> <<>> ]
    /\ rl_last = [ op |-> "idle" ]

\* how many calls the limiter has served
RateCalls == IF rl_last.op = "idle" THEN 0 ELSE rl_last.nr

\* rate_limiter.py 20-52: is_allowed(client_id), time.time() reading
\* rl_time + elapsed
IsAllowed(client_id, elapsed) ==
    /\ RateCalls < MaxRateCalls
    /\ LET current_time == rl_time + elapsed
           kept == kept_last_hour(StoredTimes(requests, client_id), current_time)
           ok == within_limits(requests_last_minute(kept, current_time),
                               Len(kept),
                               rate_limit_per_minute, rate_limit_per_hour)
       IN /\ rl_time' = current_time
          /\ requests' =
                 [ c \in DOMAIN requests \cup { client_id } |->
                     IF c = client_id
                     THEN stored_after(kept, current_time, ok)
                     ELSE requests[c] ]
          /\ rl_granted' =
                 IF ok
                 THEN [ rl_granted EXCEPT ![client_id] = Append(@, current_time) ]
                 ELSE rl_granted
          /\ rl_last' = [ op |-> "is_allowed", client_id |-> client_id,
                          current_time |-> current_time, allowed |-> ok,
                          remaining |-> [ per_minute |-> 0, per_hour |-> 0 ],
                          before |-> requests, nr |-> RateCalls + 1 ]
    /\ UNCHANGED <<rate_limit_per_minute, rate_limit_per_hour>>
    /\ UNCHANGED <<gen_vars, fb_vars, fin_vars, mr_vars, pool_vars, quota_vars,
                   deck_vars>>

\* rate_limiter.py 54-77: get_remaining_requests(client_id)
GetRemainingRequests(client_id, elapsed) ==
    /\ RateCalls < MaxRateCalls
    /\ LET current_time == rl_time + elapsed
           times == StoredTimes(requests, client_id)
       IN /\ rl_time' = current_time
          /\ rl_last' =
                 [ op |-> "get_remaining_requests", client_id |-> client_id,
                   current_time |-> current_time, allowed |-> FALSE,
                   remaining |->
                       IF client_id \notin DOMAIN requests
                       THEN [ per_minute |-> rate_limit_per_minute,
                              per_hour |-> rate_limit_per_hour ]
                       ELSE [ per_minute |->
                                  Max(0, rate_limit_per_minute
                                           - requests_last_minute(times,
                                                                  current_time)),
                              per_hour |->
                                  Max(0, rate_limit_per_hour
                                           - Len(kept_last_hour(times,
                                                                current_time))) ],
                   before |-> requests, nr |-> RateCalls + 1 ]
    /\ UNCHANGED <<rate_limit_per_minute, rate_limit_per_hour, requests,
                   rl_granted>>
    /\ UNCHANGED <<gen_vars, fb_vars, fin_vars, mr_vars, pool_vars, quota_vars,
                   deck_vars>>

NextRate ==
    \/ \E client_id \in Clients, elapsed \in Elapsed :
           IsAllowed(client_id, elapsed)
    \/ \E client_id \in Clients, elapsed \in { 0, 60 } :
           GetRemainingRequests(client_id, elapsed)

SpecRate == InitRate /\ [][NextRate]_vars

\* the number of calls of the client answered True in the window of the
\* given length that ends with its i-th such call
GrantedInWindow(client_id, i, window) ==
    LET g == rl_granted[client_id]
    IN Cardinality({ j \in 1..Len(g) : g[i] - g[j] < window /\ g[j] <= g[i] })

\* C25: for every client, the calls of is_allowed answered True within any
\* 60-second window (open at one end) number at most rate_limit_per_minute,
\* and within any 3600-second window at most rate_limit_per_hour.  It is
\* enough to look at the windows that end with a call answered True.
C25_WindowsWithinLimits ==
    rl_last.op # "idle" =>
        \A client_id \in Clients :
            \A i \in 1..Len(rl_granted[client_id]) :
                /\ GrantedInWindow(client_id, i, minute_window)
                     <= rate_limit_per_minute
                /\ GrantedInWindow(client_id, i, hour_window)
                     <= rate_limit_per_hour

\* C25 witness: a client spread its calls so that the minute limit never
\* stopped it, and the hour limit answered False to its latest call.
C25_Witness ==
    /\ rl_last.op = "is_allowed"
    /\ ~rl_last.allowed
    /\ requests_last_minute(requests[rl_last.client_id], rl_time)
         < rate_limit_per_minute
    /\ Len(requests[rl_last.client_id]) = rate_limit_per_hour
    /\ Len(rl_granted[rl_last.client_id]) = rate_limit_per_hour

\* C26: a call of is_allowed answered False leaves the client's stored
\* times as they were, less those an hour old or older, and leaves every
\* other client's entry as it was; get_remaining_requests leaves
\* self.requests as it was.
C26_DeniedCallFrame ==
    /\ (rl_last.op = "is_allowed" /\ ~rl_last.allowed) =>
          /\ DOMAIN requests = DOMAIN rl_last.before \cup { rl_last.client_id }
          /\ \A c \in DOMAIN requests \ { rl_last.client_id } :
                 requests[c] = rl_last.before[c]
          /\ requests[rl_last.client_id]
               = SelectSeq(StoredTimes(rl_last.before, rl_last.client_id),
                           LAMBDA t : rl_last.current_time - t < hour_window)
    /\ rl_last.op = "get_remaining_requests" => requests = rl_last.before

\* C26 witness: a call was answered False at the minute limit while it
\* dropped a time an hour old, the other client having times stored.
C26_Witness ==
    /\ rl_last.op = "is_allowed"
    /\ ~rl_last.allowed
    /\ Len(requests[rl_last.client_id])
         < Len(StoredTimes(rl_last.before, rl_last.client_id))
    /\ Len(requests[rl_last.client_id]) > 0
    /\ \E c \in DOMAIN requests \ { rl_last.client_id } : Len(requests[c]) > 0

(***************************************************************************)
(* api/routes/generation.py with models/user.py: the requests of one user  *)
(* to create_startup, generate_pitch_deck and generate_single_slide, run   *)
(* by one event loop.  A handler runs without interruption up to its first *)
(* await that suspends; only generate_single_slide has one, the awaited    *)
(* generate_slide_content.                                                 *)
(***************************************************************************)
MaxRequests == 4

\* user.py 177 and 188: the limits of the FREE plan
free_pitch_deck_limit == 3
free_generation_limit == 10

SubscriptionPlans == { "free", "pro", "enterprise" }

\* user.py 136-139: is_enterprise
is_enterprise(u) == u.subscription_plan = "enterprise"

\* user.py 170-179: can_create_pitch_deck
can_create_pitch_deck(u) ==
    IF is_enterprise(u) THEN TRUE
    ELSE IF u.subscription_plan = "free"
         THEN u.pitch_decks_created < free_pitch_deck_limit
         ELSE TRUE

\* user.py 181-190: can_use_ai_generation
can_use_ai_generation(u) ==
    IF is_enterprise(u) THEN TRUE
    ELSE IF u.subscription_plan = "free"
         THEN u.total_generations < free_generation_limit
         ELSE TRUE

\* user.py 160-163: increment_generations
increment_generations(u) ==
    [ u EXCEPT !.total_generations = @ + 1 ]

\* user.py 165-168: increment_pitch_decks
increment_pitch_decks(u) ==
    [ u EXCEPT !.pitch_decks_created = @ + 1 ]

\* the slide types of generate_single_slide: market_opportunity reaches the
\* provider call and suspends there, title raises while its prompt is
\* formatted, before any suspension
SingleSlideTypes == { "market_opportunity", "title" }

\* a user with the counters an earlier sequence of requests leaves: no or one
\* startup created, none or nine generations made
InitQuota ==
    /\ GenIdle
    /\ FbIdle
    /\ FinIdle
    /\ MrIdle
    /\ PoolIdle
    /\ RlIdle
    /\ DeckIdle
    /\ \E plan \in SubscriptionPlans, made \in { 0, 9 }, created \in { 0, 1 } :
           /\ user = [ subscription_plan |-> plan,
                       total_generations |-> made,
                       pitch_decks_created |-> created ]
           /\ startups = created
    /\ user_shared \in BOOLEAN
    /\ pitch_decks = 0
    /\ http = <<>>

\* main.py 130-134: the current_user a request is handed; the session of
\* connection.py 46-51 is one for the process
current_user_of(req) == IF user_shared THEN user ELSE req.current_user

\* the User row after a commit of the request's current_user with its
\* total_generations changed
committed_generations(u) ==
    [ user EXCEPT !.total_generations = u.total_generations ]

Answered(req, status) == [ req EXCEPT !.pc = "done", !.status = status ]

Received(route) ==
    [ route |-> route, pc |-> "received", current_user |-> user, status |-> 0 ]

\* generation.py 65-122: create_startup.  The 403 of line 76 is raised
\* inside the try and caught by the except Exception of line 116, which
\* answers 500.
CreateStartup ==
    /\ Len(http) < MaxRequests
    /\ LET req == Received("create_startup")
       IN IF ~can_create_pitch_deck(req.current_user)
          THEN /\ http' = Append(http, Answered(req, 500))
               /\ UNCHANGED <<user, startups>>
          ELSE /\ startups' = startups + 1
               /\ user' = increment_pitch_decks(user)
               /\ http' = Append(http, Answered(req, 200))
    /\ UNCHANGED <<user_shared, pitch_decks>>
    /\ UNCHANGED <<gen_vars, fb_vars, fin_vars, mr_vars, pool_vars, rl_vars,
                   deck_vars>>

\* generation.py 124-206: generate_pitch_deck; `known` says whether the
\* request names a startup of the user
GeneratePitchDeck(known) ==
    /\ Len(http) < MaxRequests
    /\ LET req == Received("generate_pitch_deck")
       IN IF ~can_use_ai_generation(req.current_user)
          THEN /\ http' = Append(http, Answered(req, 403))
               /\ UNCHANGED <<user, pitch_decks>>
          ELSE IF ~(known /\ startups > 0)
          THEN /\ http' = Append(http, Answered(req, 404))
               /\ UNCHANGED <<user, pitch_decks>>
          ELSE /\ pitch_decks' = pitch_decks + 1
               /\ user' = increment_generations(user)
               /\ http' = Append(http, Answered(req, 200))
    /\ UNCHANGED <<user_shared, startups>>
    /\ UNCHANGED <<gen_vars, fb_vars, fin_vars, mr_vars, pool_vars, rl_vars,
                   deck_vars>>

\* generation.py 256-287: generate_single_slide up to the await of line 287
GenerateSingleSlide(slide_type, known) ==
    /\ Len(http) < MaxRequests
    /\ LET req == Received("generate_single_slide")
       IN http' = Append(http,
              IF ~can_use_ai_generation(req.current_user)
              THEN Answered(req, 403)
              ELSE IF ~(known /\ startups > 0)
              THEN Answered(req, 404)
              ELSE IF slide_type = "title"
              THEN Answered(req, 500)
              ELSE [ req EXCEPT !.pc = "awaiting" ])
    /\ UNCHANGED <<user, user_shared, startups, pitch_decks>>
    /\ UNCHANGED <<gen_vars, fb_vars, fin_vars, mr_vars, pool_vars, rl_vars,
                   deck_vars>>

\* generation.py 287-309: the awaited generate_slide_content returns or
\* raises and the handler runs to its end
SlideGenerated(i, raised) ==
    /\ i \in 1..Len(http)
    /\ http[i].pc = "awaiting"
    /\ IF raised
       THEN /\ http' = [ http EXCEPT ![i] = Answered(@, 500) ]
            /\ UNCHANGED user
       ELSE /\ user' = committed_generations(
                           increment_generations(current_user_of(http[i])))
            /\ http' = [ http EXCEPT ![i] = Answered(@, 200) ]
    /\ UNCHANGED <<user_shared, startups, pitch_decks>>
    /\ UNCHANGED <<gen_vars, fb_vars, fin_vars, mr_vars, pool_vars, rl_vars,
                   deck_vars>>

NextQuota ==
    \/ CreateStartup
    \/ \E known \in BOOLEAN : GeneratePitchDeck(known)
    \/ \E slide_type \in SingleSlideTypes, known \in BOOLEAN :
           GenerateSingleSlide(slide_type, known)
    \/ \E i \in 1..MaxRequests, raised \in BOOLEAN : SlideGenerated(i, raised)

SpecQuota == InitQuota /\ [][NextQuota]_vars

\* C27: the total_generations of a user on the FREE plan never exceeds 10,
\* however the user's generate_single_slide and generate_pitch_deck requests
\* interleave.
C27_GenerationsWithinFreeLimit ==
    user.subscription_plan = "free" =>
        user.total_generations <= free_generation_limit

\* C28: a user on the FREE plan never owns more than 3 pitch decks.
C28_DecksWithinFreeLimit ==
    user.subscription_plan = "free" =>
        pitch_decks <= free_pitch_deck_limit

(***************************************************************************)
(* models/pitch_deck.py 152-182: add_slide, remove_slide, reorder_slides   *)
(* and _update_slide_order on one PitchDeck.  A slide is its id and its    *)
(* order; the id of a Slide is None until the session flushes it (the      *)
(* uuid4 of slide.py 55 is a column default), as it is for the slides      *)
(* PitchDeck.duplicate adds.                                               *)
(***************************************************************************)
MaxSlides == 3

\* the ids of flushed slides, and the id of a slide not flushed yet
Uuids == { [ kind |-> "uuid", v |-> "u1" ], [ kind |-> "uuid", v |-> "u2" ] }
NoId == [ kind |-> "none", v |-> "" ]

\* str(slide.id)
str(id) == IF id.kind = "none" THEN "None" ELSE id.v

\* the slide_id strings a caller passes: the text of an id, of None, or of
\* an id no slide has
SlideIdTexts == { str(id) : id \in Uuids \cup { NoId } } \cup { "u9" }

\* the new_order lists a caller passes
NewOrders == UNION { [1..k -> SlideIdTexts \ { "u9" }] : k \in 0..2 }

RECURSIVE sorted(_, _)
\* sorted(self.slides, key=lambda x: x.order): stable; `done` holds the
\* slides placed so far
sorted(done, rest) ==
    IF rest = <<>>
    THEN done
    ELSE LET x == Head(rest)
             \* x goes after the last placed slide whose order is <= its own
             at == Cardinality({ i \in 1..Len(done) : done[i].order <= x.order })
         IN sorted(SubSeq(done, 1, at) \o <<x>> \o SubSeq(done, at + 1, Len(done)),
                   Tail(rest))

\* pitch_deck.py 180-182: the list _update_slide_order stores
_update_slide_order(the_slides) ==
    LET in_order == sorted(<<>>, the_slides)
    IN [ given |-> TRUE,
         list |-> [ i \in 1..Len(in_order) |-> str(in_order[i].id) ] ]

\* next((s for s in self.slides if str(s.id) == slide_id), None), as the
\* index of the slide, 0 for None
FirstWithId(the_slides, slide_id) ==
    LET found == { i \in 1..Len(the_slides) : str(the_slides[i].id) = slide_id }
    IN IF found = {} THEN 0 ELSE CHOOSE i \in found : \A j \in found : i <= j

\* the list without its k-th element
Without(the_slides, k) ==
    SubSeq(the_slides, 1, k - 1) \o SubSeq(the_slides, k + 1, Len(the_slides))

RECURSIVE Reordered(_, _, _)
\* pitch_deck.py 173-176: the loop of reorder_slides from position i on
Reordered(the_slides, new_order, i) ==
    IF i > Len(new_order)
    THEN the_slides
    ELSE LET k == FirstWithId(the_slides, new_order[i])
         IN Reordered(IF k = 0 THEN the_slides
                      ELSE [ the_slides EXCEPT ![k].order = i ],
                      new_order, i + 1)

\* the deck as the operations see it
Deck == [ slides |-> slides, total_slides |-> total_slides,
          slide_order |-> slide_order ]

NoDeck == [ slides |-> <<>>, total_slides |-> 0,
            slide_order |-> [ given |-> FALSE, list |-> <<>> ] ]

\* pitch_deck.py 48-49 and 96: a new deck
InitDeck ==
    /\ GenIdle
    /\ FbIdle
    /\ FinIdle
    /\ MrIdle
    /\ PoolIdle
    /\ RlIdle
    /\ QuotaIdle
    /\ slides = <<>>
    /\ total_slides = 0
    /\ slide_order = [ given |-> FALSE, list |-> <<>> ]
    /\ deck_last = [ op |-> "idle" ]

\* whether reorder_slides was called on the deck
WasReordered == deck_last.op # "idle" /\ deck_last.reordered

\* pitch_deck.py 152-158: add_slide of a slide with the given id, which no
\* slide of the deck has unless it is None
AddSlide(id) ==
    /\ Len(slides) < MaxSlides
    /\ id \in Uuids => \A i \in 1..Len(slides) : slides[i].id # id
    /\ LET slide == [ id |-> id, order |-> Len(slides) + 1 ]
       IN /\ slides' = Append(slides, slide)
          /\ total_slides' = Len(slides')
          /\ slide_order' = _update_slide_order(slides')
    /\ deck_last' = [ op |-> "add_slide", arg |-> str(id), ret |-> FALSE,
                      before |-> NoDeck, reordered |-> WasReordered ]
    /\ UNCHANGED <<gen_vars, fb_vars, fin_vars, mr_vars, pool_vars, rl_vars,
                   quota_vars>>

\* pitch_deck.py 160-168: remove_slide
RemoveSlide(slide_id) ==
    /\ LET k == FirstWithId(slides, slide_id)
       IN IF k # 0
          THEN /\ slides' = Without(slides, k)
               /\ total_slides' = Len(slides')
               /\ slide_order' = _update_slide_order(slides')
               /\ deck_last' = [ op |-> "remove_slide", arg |-> slide_id,
                                 ret |-> TRUE, before |-> Deck,
                                 reordered |-> WasReordered ]
          ELSE /\ UNCHANGED <<slides, total_slides, slide_order>>
               /\ deck_last' = [ op |-> "remove_slide", arg |-> slide_id,
                                 ret |-> FALSE, before |-> Deck,
                                 reordered |-> WasReordered ]
    /\ UNCHANGED <<gen_vars, fb_vars, fin_vars, mr_vars, pool_vars, rl_vars,
                   quota_vars>>

\* pitch_deck.py 170-178: reorder_slides
ReorderSlides(new_order) ==
    /\ slides' = Reordered(slides, new_order, 1)
    /\ slide_order' = _update_slide_order(slides')
    /\ deck_last' = [ op |-> "reorder_slides", arg |-> "", ret |-> FALSE,
                      before |-> NoDeck, reordered |-> TRUE ]
    /\ UNCHANGED total_slides
    /\ UNCHANGED <<gen_vars, fb_vars, fin_vars, mr_vars, pool_vars, rl_vars,
                   quota_vars>>

NextDeck ==
    \/ \E id \in Uuids \cup { NoId } : AddSlide(id)
    \/ \E slide_id \in SlideIdTexts : RemoveSlide(slide_id)
    \/ \E new_order \in NewOrders : ReorderSlides(new_order)

SpecDeck == InitDeck /\ [][NextDeck]_vars

\* the ids slide_order lists: none while it is still None
ListedIds == slide_order.list

\* C29: after any sequence of add_slide, remove_slide and reorder_slides the
\* order values of the slides of the deck are positive and pairwise
\* distinct.
C29_OrdersDistinctPositive ==
    deck_last.op # "idle" =>
        /\ \A i \in 1..Len(slides) : slides[i].order >= 1
        /\ \A i, j \in 1..Len(slides) :
               i # j => slides[i].order # slides[j].order

\* C30: after any sequence of add_slide and remove_slide, total_slides is
\* the number of slides of the deck and slide_order lists the id of each
\* slide exactly once, in the order of the order values; remove_slide with
\* an id no slide has returns False and changes nothing.
C30_DeckBookkeeping ==
    (deck_last.op # "idle" /\ ~deck_last.reordered) =>
        /\ total_slides = Len(slides)
        /\ Len(ListedIds) = Len(slides)
        /\ \A k \in 1..Len(slides) :
               Cardinality({ i \in 1..Len(ListedIds) :
                               ListedIds[i] = str(slides[k].id) }) = 1
        /\ \A i, j \in 1..Len(ListedIds) :
               i < j =>
                   slides[FirstWithId(slides, ListedIds[i])].order
                     <= slides[FirstWithId(slides, ListedIds[j])].order
        /\ (deck_last.op = "remove_slide"
              /\ FirstWithId(deck_last.before.slides, deck_last.arg) = 0) =>
               /\ ~deck_last.ret
               /\ Deck = deck_last.before

=============================================================================
